---- MODULE Spec2Model ----
(***************************************************************************)
(* A model of the DataFrameTable component (src/components/dataframe):     *)
(* its view state (search text, sort key and direction, rows per page,     *)
(* current page, per-column filters), the props it derives its view from   *)
(* (data, columns), and the pure pipeline infer -> filter -> sort ->       *)
(* paginate, translated from DataFrameTable.tsx and DataTable.tsx.         *)
(*                                                                         *)
(* Representation.                                                         *)
(*   - A JavaScript string is a sequence of one-character strings.         *)
(*   - A JavaScript number is an integer count of 1/Scale units (four      *)
(*     decimal digits); NaN is the record NaN.  The decimal parser and     *)
(*     printer are exact for numbers with at most four fraction digits     *)
(*     that print without an exponent.                                     *)
(*   - A cell value is a tagged record: Num(n), Str(s), Bool(b), Null,     *)
(*     Undef.  A row is a function from column keys to cell values; a key  *)
(*     outside its domain reads as Undef.                                  *)
(*   - The operations of the JavaScript runtime the source calls           *)
(*     (toLowerCase, includes, trim, Number, String, Date.parse, new Date, *)
(*     localeCompare, Intl.NumberFormat, Intl.DateTimeFormat) are defined  *)
(*     here together with the tables and digit helpers they are built on.  *)
(***************************************************************************)
EXTENDS Integers, Sequences, FiniteSets, TLC

VARIABLES
    data,           \* props.data: the sequence of records
    schemaProps,    \* props.columns (<<>> when not supplied) and props.columnTypes
    searchQuery,    \* useState: global search text
    sortKey,        \* useState: sort column key, or NoKey (null)
    sortDirection,  \* useState: "asc" | "desc"
    rowsPerPage,    \* useState: page size
    currentPage,    \* useState: stored page index
    columnFilters,  \* useState: column key -> entry with the fields set of text, min, max
    lastOp,         \* history: the handler that ran last
    probe,          \* inputs of the pure-function specifications
    out             \* results of the pure-function specifications, and the file
                    \* the latest handler handed to the browser as a download

vars == <<data, schemaProps, searchQuery, sortKey, sortDirection, rowsPerPage,
          currentPage, columnFilters, lastOp, probe, out>>

viewVars == <<data, schemaProps, searchQuery, sortKey, sortDirection, rowsPerPage,
              currentPage, columnFilters, lastOp>>

-----------------------------------------------------------------------------
(* Characters and strings                                                  *)

Digits == <<"0", "1", "2", "3", "4", "5", "6", "7", "8", "9">>

UpperChars == <<"A", "B", "C", "D", "E", "F", "G", "H", "I", "J", "K", "L", "M",
                "N", "O", "P", "Q", "R", "S", "T", "U", "V", "W", "X", "Y", "Z">>

LowerChars == <<"a", "b", "c", "d", "e", "f", "g", "h", "i", "j", "k", "l", "m",
                "n", "o", "p", "q", "r", "s", "t", "u", "v", "w", "x", "y", "z">>

\* The collation order of the characters the model uses: whitespace and
\* punctuation, then digits, then letters (case is a lower-level difference).
CollationChars ==
    <<"\n", " ", "_", "-", ",", ":", ".", "\"", "%", "$">> \o Digits \o LowerChars

IndexOf(seq, c) ==
    IF \E i \in DOMAIN seq : seq[i] = c
    THEN CHOOSE i \in DOMAIN seq : seq[i] = c
    ELSE 0

\* every character of the model's strings
AllChars ==
    {CollationChars[i] : i \in DOMAIN CollationChars}
        \cup {UpperChars[i] : i \in DOMAIN UpperChars} \cup {"+"}

\* per-character tables, computed once
DigitTable == [c \in AllChars |-> IndexOf(Digits, c)]

UpperTable == [c \in AllChars |-> IndexOf(UpperChars, c)]

LowerTable ==
    [c \in AllChars |-> IF UpperTable[c] > 0 THEN LowerChars[UpperTable[c]] ELSE c]

RankTable == [c \in AllChars |-> IndexOf(CollationChars, LowerTable[c])]

IsDigit(c) == DigitTable[c] > 0

DigitVal(c) == DigitTable[c] - 1

IsUpper(c) == UpperTable[c] > 0

\* String.prototype.toLowerCase, one character
LowerChar(c) == LowerTable[c]

\* String.prototype.toLowerCase
toLowerCase(s) == [i \in DOMAIN s |-> LowerChar(s[i])]

StartsWithAt(s, sub, i) ==
    /\ i + Len(sub) - 1 <= Len(s)
    /\ \A j \in 1..Len(sub) : s[i + j - 1] = sub[j]

\* String.prototype.includes: scan the start positions left to right
RECURSIVE IncludesFrom(_, _, _)
IncludesFrom(s, sub, i) ==
    IF i + Len(sub) - 1 > Len(s) THEN FALSE
    ELSE IF StartsWithAt(s, sub, i) THEN TRUE
    ELSE IncludesFrom(s, sub, i + 1)

includes(s, sub) == IncludesFrom(s, sub, 1)

IsSpace(c) == c = " "

\* String.prototype.trim
trim(s) ==
    IF s = <<>> THEN s
    ELSE IF ~IsSpace(s[1]) /\ ~IsSpace(s[Len(s)]) THEN s
    ELSE LET kept == {i \in DOMAIN s : ~IsSpace(s[i])}
         IN  IF kept = {} THEN <<>>
             ELSE SubSeq(s, CHOOSE i \in kept : \A j \in kept : i <= j,
                            CHOOSE i \in kept : \A j \in kept : i >= j)

-----------------------------------------------------------------------------
(* Numbers                                                                 *)

Scale == 10 * 10 * 10 * 10

NaN == [nan |-> TRUE, v |-> 0]

Fin(n) == [nan |-> FALSE, v |-> n]

isNaN(x) == x.nan

\* the value of the first n digits of s
RECURSIVE DigitsValueTo(_, _)
DigitsValueTo(s, n) ==
    IF n = 0 THEN 0 ELSE DigitsValueTo(s, n - 1) * 10 + DigitVal(s[n])

DigitsValue(s) == DigitsValueTo(s, Len(s))

AllDigits(s) == \A i \in DOMAIN s : IsDigit(s[i])

\* the fraction digits d1 d2 ... as a count of 1/Scale units
FractionValue(s) ==
    LET padded == SubSeq(s \o <<"0", "0", "0", "0">>, 1, 4)
    IN  DigitsValue(padded)

\* StrUnsignedDecimalLiteral: digits [. digits] | . digits
UnsignedDecimal(s) ==
    LET dot == IndexOf(s, ".")
        ip  == IF dot = 0 THEN s ELSE SubSeq(s, 1, dot - 1)
        fp  == IF dot = 0 THEN <<>> ELSE SubSeq(s, dot + 1, Len(s))
    IN  IF /\ AllDigits(ip)
           /\ AllDigits(fp)
           /\ Len(ip) + Len(fp) > 0
        THEN Fin(DigitsValue(ip) * Scale + FractionValue(fp))
        ELSE NaN

\* Number(string): StringToNumber on the trimmed text; the empty string is 0
StringToNumber(s) ==
    LET t == trim(s)
    IN  IF t = <<>> THEN Fin(0)
        ELSE IF Head(t) = "-"
             THEN LET u == UnsignedDecimal(Tail(t))
                  IN  IF isNaN(u) THEN NaN ELSE Fin(0 - u.v)
        ELSE IF Head(t) = "+" THEN UnsignedDecimal(Tail(t))
        ELSE UnsignedDecimal(t)

RECURSIVE NatToString(_)
NatToString(n) ==
    IF n < 10 THEN <<Digits[n + 1]>>
    ELSE NatToString(n \div 10) \o <<Digits[(n % 10) + 1]>>

RECURSIVE StripZeros(_)
StripZeros(s) ==
    IF s # <<>> /\ s[Len(s)] = "0" THEN StripZeros(SubSeq(s, 1, Len(s) - 1)) ELSE s

\* Number::toString for a finite number in plain decimal notation
NumberToString(n) ==
    LET a    == IF n < 0 THEN 0 - n ELSE n
        ip   == NatToString(a \div Scale)
        f4   == NatToString(Scale + (a % Scale))
        frac == StripZeros(Tail(f4))
        body == IF frac = <<>> THEN ip ELSE ip \o <<".">> \o frac
    IN  IF n < 0 THEN <<"-">> \o body ELSE body

-----------------------------------------------------------------------------
(* Cell values (types.ts: CellValue)                                       *)

Num(n) == [t |-> "number", n |-> n]

Str(s) == [t |-> "string", s |-> s]

Bool(b) == [t |-> "boolean", b |-> b]

Null == [t |-> "null"]

Undef == [t |-> "undefined"]

\* cell === null || cell === undefined
IsAbsent(v) == v.t = "null" \/ v.t = "undefined"

\* a read that gives the empty text for a key the record does not have
CellOrEmptyText(row, key) == IF key \in DOMAIN row THEN row[key] ELSE Str(<<>>)

\* row[key]: a key the record does not have reads as undefined
Cell(row, key) == IF key \in DOMAIN row THEN row[key] ELSE Undef

\* String(value)
String(v) ==
    CASE v.t = "string"    -> v.s
      [] v.t = "number"    -> NumberToString(v.n)
      [] v.t = "boolean"   -> IF v.b THEN <<"t", "r", "u", "e">>
                              ELSE <<"f", "a", "l", "s", "e">>
      [] v.t = "null"      -> <<"n", "u", "l", "l">>
      [] v.t = "undefined" -> <<"u", "n", "d", "e", "f", "i", "n", "e", "d">>

\* Number(value)
Number(v) ==
    CASE v.t = "string"    -> StringToNumber(v.s)
      [] v.t = "number"    -> Fin(v.n)
      [] v.t = "boolean"   -> IF v.b THEN Fin(Scale) ELSE Fin(0)
      [] v.t = "null"      -> Fin(0)
      [] v.t = "undefined" -> NaN

-----------------------------------------------------------------------------
(* Dates.  A time value is [nan, min, sub]: whole minutes since            *)
(* 1970-01-01T00:00 and the rest of the minute in 1/Scale milliseconds.    *)
(* Date strings are parsed in the ISO forms YYYY-MM-DD and                 *)
(* YYYY-MM-DDTHH:MM (read in UTC); text without any digit is an invalid    *)
(* date in every engine.  Other text with digits is parsed by engine       *)
(* specific heuristics and is kept out of the date-typed inputs.           *)

InvalidDate == [nan |-> TRUE, min |-> 0, sub |-> 0]

TimeValue(m, s) == [nan |-> FALSE, min |-> m, sub |-> s]

MinuteUnits == 60 * 1000 * Scale

IsLeap(y) == (y % 4 = 0 /\ y % 100 # 0) \/ y % 400 = 0

DaysInMonth(y, m) ==
    IF m = 2 THEN (IF IsLeap(y) THEN 29 ELSE 28)
    ELSE IF m \in {4, 6, 9, 11} THEN 30 ELSE 31

RECURSIVE DaysBeforeMonth(_, _)
DaysBeforeMonth(y, m) ==
    IF m <= 1 THEN 0 ELSE DaysBeforeMonth(y, m - 1) + DaysInMonth(y, m - 1)

\* days from 1970-01-01 to the first day of year y
DaysBeforeYear(y) ==
    365 * (y - 1970) + ((y - 1969) \div 4) - ((y - 1901) \div 100) + ((y - 1601) \div 400)

IsIsoDate(s) ==
    /\ Len(s) = 10
    /\ s[5] = "-" /\ s[8] = "-"
    /\ \A i \in {1, 2, 3, 4, 6, 7, 9, 10} : IsDigit(s[i])

IsIsoTime(s) ==
    /\ Len(s) = 5
    /\ s[3] = ":"
    /\ \A i \in {1, 2, 4, 5} : IsDigit(s[i])

\* Date.parse(text)
DateParse(s) ==
    LET ds == SubSeq(s, 1, 10)
        ts == SubSeq(s, 12, Len(s))
        y  == DigitsValue(SubSeq(s, 1, 4))
        m  == DigitsValue(SubSeq(s, 6, 7))
        d  == DigitsValue(SubSeq(s, 9, 10))
        hh == IF Len(s) > 10 THEN DigitsValue(SubSeq(s, 12, 13)) ELSE 0
        mm == IF Len(s) > 10 THEN DigitsValue(SubSeq(s, 15, 16)) ELSE 0
        shaped == /\ Len(s) >= 10
                  /\ IsIsoDate(ds)
                  /\ \/ Len(s) = 10
                     \/ Len(s) = 16 /\ s[11] = "T" /\ IsIsoTime(ts)
    IN  IF /\ shaped
           /\ m \in 1..12
           /\ d \in 1..DaysInMonth(y, m)
           /\ hh \in 0..23
           /\ mm \in 0..59
        THEN TimeValue(((DaysBeforeYear(y) + DaysBeforeMonth(y, m) + d - 1) * 24 + hh) * 60 + mm, 0)
        ELSE InvalidDate

\* new Date(value): a string is parsed, any other value is a count of milliseconds
NewDate(v) ==
    IF v.t = "string" THEN DateParse(v.s)
    ELSE LET ofMillis(n) ==
                 IF isNaN(n) THEN InvalidDate
                 ELSE TimeValue(n.v \div MinuteUnits, n.v % MinuteUnits)
         IN  ofMillis(Number(v))

\* d < e on two valid dates
DateLess(d, e) == d.min < e.min \/ (d.min = e.min /\ d.sub < e.sub)

-----------------------------------------------------------------------------
(* String.prototype.localeCompare: the primary difference (letters without *)
(* case, digits, punctuation) decides; on a primary tie the first case     *)
(* difference decides, lower case first.                                   *)

Sign(n) == IF n < 0 THEN -1 ELSE IF n > 0 THEN 1 ELSE 0

PrimaryRank(c) == RankTable[c]

\* compare from position i on, by primary rank; the shorter text sorts first
RECURSIVE PrimaryCompare(_, _, _)
PrimaryCompare(a, b, i) ==
    IF i > Len(a) /\ i > Len(b) THEN 0
    ELSE IF i > Len(a) THEN -1
    ELSE IF i > Len(b) THEN 1
    ELSE IF PrimaryRank(a[i]) # PrimaryRank(b[i])
         THEN Sign(PrimaryRank(a[i]) - PrimaryRank(b[i]))
    ELSE PrimaryCompare(a, b, i + 1)

\* two texts of equal primary ranks: the first case difference, lower case first
RECURSIVE CaseCompare(_, _, _)
CaseCompare(a, b, i) ==
    IF i > Len(a) \/ i > Len(b) THEN 0
    ELSE IF a[i] # b[i] THEN (IF IsUpper(a[i]) THEN 1 ELSE -1)
    ELSE CaseCompare(a, b, i + 1)

localeCompare(a, b) ==
    IF a = b THEN 0
    ELSE LET p == PrimaryCompare(a, b, 1)
         IN  IF p # 0 THEN p ELSE CaseCompare(a, b, 1)

-----------------------------------------------------------------------------
(* Column schema (types.ts: ColumnConfig) and the props the model draws    *)
(* from.  A ColumnConfig is a record holding key and any of label, type,   *)
(* sortable, filter, align, visible; an optional field that is not given   *)
(* is not in the record's domain.                                          *)

Absent == "absent"

NoKey == "null"

\* the spelling of each column key
KeyText(key) ==
    CASE key = "date"  -> <<"d", "a", "t", "e">>
      [] key = "store" -> <<"s", "t", "o", "r", "e">>
      [] key = "price" -> <<"p", "r", "i", "c", "e">>
      [] key = "code"  -> <<"c", "o", "d", "e">>

\* the order in which a record lists its keys (Object.keys)
KeyOrder == <<"date", "store", "price", "code">>

Opt(c, f) == IF f \in DOMAIN c THEN c[f] ELSE Absent

IsKey(k) == \E i \in DOMAIN KeyOrder : KeyOrder[i] = k

\* Object.keys(data[0])
dataKeysOf(d) ==
    IF d = <<>> THEN <<>>
    ELSE LET Has(k) == k \in DOMAIN d[1] IN SelectSeq(KeyOrder, Has)

\* one entry of the normalised columns
NormalizeColumn(c) ==
    [key      |-> c.key,
     label    |-> IF "label" \in DOMAIN c THEN c.label ELSE KeyText(c.key),
     type     |-> Opt(c, "type"),
     filter   |-> Opt(c, "filter"),
     align    |-> Opt(c, "align"),
     visible  |-> ~("visible" \in DOMAIN c /\ c.visible = FALSE),
     sortable |-> ~("sortable" \in DOMAIN c /\ c.sortable = FALSE)]

\* columns: the given schema normalised, or one synthesised from the first record
columnsOf(cp, d) ==
    IF cp # <<>>
    THEN [i \in DOMAIN cp |-> NormalizeColumn(cp[i])]
    ELSE LET ks == dataKeysOf(d)
         IN  [i \in DOMAIN ks |-> NormalizeColumn([key |-> ks[i]])]

-----------------------------------------------------------------------------
(* utils.ts: inferColumnType                                               *)

SampleSize == 20

NonAbsent(values) == LET Present(v) == ~IsAbsent(v) IN SelectSeq(values, Present)

IsInteger(n) == n.v % Scale = 0

KeyLooksPercent(lowerKey) ==
    \/ includes(lowerKey, <<"p", "e", "r", "c", "e", "n", "t">>)
    \/ includes(lowerKey, <<"p", "c", "t">>)
    \/ includes(lowerKey, <<"r", "a", "t", "e">>)
    \/ includes(lowerKey, <<"r", "a", "t", "i", "o">>)

KeyLooksCurrency(lowerKey) ==
    \/ includes(lowerKey, <<"p", "r", "i", "c", "e">>)
    \/ includes(lowerKey, <<"a", "m", "o", "u", "n", "t">>)
    \/ includes(lowerKey, <<"c", "o", "s", "t">>)
    \/ includes(lowerKey, <<"r", "e", "v", "e", "n", "u", "e">>)
    \/ includes(lowerKey, <<"r", "e", "v">>)

\* an inference that tries the currency words before the percent rule
inferCurrencyFirst(columnKey, values) ==
    LET nonNull  == NonAbsent(values)
        sample   == SubSeq(nonNull, 1, IF Len(nonNull) < SampleSize THEN Len(nonNull) ELSE SampleSize)
        lowerKey == toLowerCase(columnKey)
        IsStr(v) == v.t = "string"
        stringValues == SelectSeq(sample, IsStr)
        DateLike(v)  == ~DateParse(v.s).nan
        dateLike     == SelectSeq(stringValues, DateLike)
        hasTime  == \E i \in DOMAIN stringValues :
                       includes(stringValues[i].s, <<"T">>) \/ includes(stringValues[i].s, <<":">>)
        numericParsable == \A i \in DOMAIN sample : ~isNaN(Number(sample[i]))
        allInts   == \A i \in DOMAIN sample : IsInteger(Number(sample[i]))
        inZeroOne == \A i \in DOMAIN sample :
                        Number(sample[i]).v >= 0 /\ Number(sample[i]).v <= Scale
    IN  IF Len(nonNull) = 0 THEN "string"
        ELSE IF \A i \in DOMAIN sample : sample[i].t = "boolean" THEN "boolean"
        ELSE IF Len(stringValues) > 0 /\ Len(dateLike) = Len(stringValues)
             THEN (IF hasTime THEN "datetime" ELSE "date")
        ELSE IF numericParsable
             THEN (IF KeyLooksCurrency(lowerKey) THEN "currency"
                   ELSE IF KeyLooksPercent(lowerKey) \/ inZeroOne THEN "percent"
                   ELSE IF allInts THEN "integer"
                   ELSE "number")
        ELSE "string"

\* an inference that looks at every present value of the column
inferWholeColumn(columnKey, values) ==
    LET sample   == NonAbsent(values)
        lowerKey == toLowerCase(columnKey)
        IsStr(v) == v.t = "string"
        stringValues == SelectSeq(sample, IsStr)
    IN  IF Len(sample) = 0 THEN "string"
        ELSE IF \A i \in DOMAIN sample : sample[i].t = "boolean" THEN "boolean"
        ELSE IF /\ Len(stringValues) > 0
                /\ \A i \in DOMAIN stringValues : ~DateParse(stringValues[i].s).nan
             THEN (IF \E i \in DOMAIN stringValues :
                          includes(stringValues[i].s, <<"T">>) \/ includes(stringValues[i].s, <<":">>)
                   THEN "datetime" ELSE "date")
        ELSE IF \A i \in DOMAIN sample : ~isNaN(Number(sample[i]))
             THEN (IF \/ KeyLooksPercent(lowerKey)
                      \/ \A i \in DOMAIN sample :
                             Number(sample[i]).v >= 0 /\ Number(sample[i]).v <= Scale
                   THEN "percent"
                   ELSE IF KeyLooksCurrency(lowerKey) THEN "currency"
                   ELSE IF \A i \in DOMAIN sample : IsInteger(Number(sample[i])) THEN "integer"
                   ELSE "number")
        ELSE "string"

\* an inference whose date rule needs every sampled value to be a string
inferDateAllStrings(columnKey, values) ==
    LET nonNull  == NonAbsent(values)
        sample   == SubSeq(nonNull, 1, IF Len(nonNull) < SampleSize THEN Len(nonNull) ELSE SampleSize)
        lowerKey == toLowerCase(columnKey)
        IsStr(v) == v.t = "string"
        stringValues == SelectSeq(sample, IsStr)
    IN  IF Len(nonNull) = 0 THEN "string"
        ELSE IF \A i \in DOMAIN sample : sample[i].t = "boolean" THEN "boolean"
        ELSE IF /\ Len(stringValues) = Len(sample)
                /\ \A i \in DOMAIN stringValues : ~DateParse(stringValues[i].s).nan
             THEN (IF \E i \in DOMAIN stringValues :
                          includes(stringValues[i].s, <<"T">>) \/ includes(stringValues[i].s, <<":">>)
                   THEN "datetime" ELSE "date")
        ELSE IF \A i \in DOMAIN sample : ~isNaN(Number(sample[i]))
             THEN (IF \/ KeyLooksPercent(lowerKey)
                      \/ \A i \in DOMAIN sample :
                             Number(sample[i]).v >= 0 /\ Number(sample[i]).v <= Scale
                   THEN "percent"
                   ELSE IF KeyLooksCurrency(lowerKey) THEN "currency"
                   ELSE IF \A i \in DOMAIN sample : IsInteger(Number(sample[i])) THEN "integer"
                   ELSE "number")
        ELSE "string"

inferColumnType(columnKey, values) ==
    LET nonNull  == NonAbsent(values)
        sample   == SubSeq(nonNull, 1, IF Len(nonNull) < SampleSize THEN Len(nonNull) ELSE SampleSize)
        lowerKey == toLowerCase(columnKey)
        IsStr(v) == v.t = "string"
        stringValues == SelectSeq(sample, IsStr)
        DateLike(v)  == ~DateParse(v.s).nan
        dateLike     == SelectSeq(stringValues, DateLike)
        hasTime  == \E i \in DOMAIN stringValues :
                       includes(stringValues[i].s, <<"T">>) \/ includes(stringValues[i].s, <<":">>)
        numericParsable == \A i \in DOMAIN sample : ~isNaN(Number(sample[i]))
        allInts   == \A i \in DOMAIN sample : IsInteger(Number(sample[i]))
        inZeroOne == \A i \in DOMAIN sample :
                        Number(sample[i]).v >= 0 /\ Number(sample[i]).v <= Scale
    IN  IF Len(nonNull) = 0 THEN "string"
        ELSE IF \A i \in DOMAIN sample : sample[i].t = "boolean" THEN "boolean"
        ELSE IF Len(stringValues) > 0 /\ Len(dateLike) = Len(stringValues)
             THEN (IF hasTime THEN "datetime" ELSE "date")
        ELSE IF numericParsable
             THEN (IF KeyLooksPercent(lowerKey) \/ inZeroOne THEN "percent"
                   ELSE IF KeyLooksCurrency(lowerKey) THEN "currency"
                   ELSE IF allInts THEN "integer"
                   ELSE "number")
        ELSE "string"

\* a resolution that lets the override map win over the column's own type
columnTypeOverrideFirst(col, d, overrides) ==
    LET values   == [i \in DOMAIN d |-> Cell(d[i], col.key)]
        inferred == inferColumnType(KeyText(col.key), values)
    IN  IF col.key \in DOMAIN overrides THEN overrides[col.key]
        ELSE IF col.type # Absent THEN col.type
        ELSE inferred

\* columnTypeByKey[key]: column type, else global override, else inferred
columnTypeOf(col, d, overrides) ==
    LET values   == [i \in DOMAIN d |-> Cell(d[i], col.key)]
        inferred == inferColumnType(KeyText(col.key), values)
    IN  IF col.type # Absent THEN col.type
        ELSE IF col.key \in DOMAIN overrides THEN overrides[col.key]
        ELSE inferred

\* columnTypeByKey, read as columnTypeByKey[key] ?? "string" for every key
columnTypeByKeyOf(cols, d, overrides) ==
    [key \in {KeyOrder[i] : i \in DOMAIN KeyOrder} |->
        IF \E i \in DOMAIN cols : cols[i].key = key
        THEN columnTypeOf(cols[CHOOSE i \in DOMAIN cols : cols[i].key = key], d, overrides)
        ELSE "string"]

isRangeTypeFromType(type) ==
    type \in {"number", "integer", "currency", "percent", "date", "datetime"}

IsNumericType(type) == type \in {"number", "integer", "currency", "percent"}

IsDateType(type) == type \in {"date", "datetime"}

-----------------------------------------------------------------------------
(* Filter (types.ts: ColumnFilterState; utils.ts; DataFrameTable filteredData) *)
(* A ColumnFilterState is a record holding any of text, min, max.          *)

\* Boolean(state.f): the field is given and is not the empty string
Truthy(state, f) == f \in DOMAIN state /\ state[f] # <<>>

\* str && str.trim() !== ""
NonBlank(state, f) == Truthy(state, f) /\ trim(state[f]) # <<>>

\* a numeric range whose bounds are exclusive
passesNumericRangeExclusive(cell, state) ==
    IF IsAbsent(cell) THEN FALSE
    ELSE LET n == Number(cell)
         IN  IF isNaN(n) THEN FALSE
             ELSE IF /\ NonBlank(state, "min")
                     /\ ~isNaN(StringToNumber(state.min))
                     /\ n.v <= StringToNumber(state.min).v
                  THEN FALSE
             ELSE IF /\ NonBlank(state, "max")
                     /\ ~isNaN(StringToNumber(state.max))
                     /\ n.v >= StringToNumber(state.max).v
                  THEN FALSE
             ELSE TRUE

passesNumericRangeFilter(cell, state) ==
    IF IsAbsent(cell) THEN FALSE
    ELSE LET within(n) ==
                 IF isNaN(n) THEN FALSE
                 ELSE IF /\ NonBlank(state, "min")
                         /\ ~isNaN(StringToNumber(state.min))
                         /\ n.v < StringToNumber(state.min).v
                      THEN FALSE
                 ELSE IF /\ NonBlank(state, "max")
                         /\ ~isNaN(StringToNumber(state.max))
                         /\ n.v > StringToNumber(state.max).v
                      THEN FALSE
                 ELSE TRUE
         IN  within(Number(cell))

passesDateRangeFilter(cell, state) ==
    IF IsAbsent(cell) THEN FALSE
    ELSE LET within(d) ==
                 IF d.nan THEN FALSE
                 ELSE IF /\ NonBlank(state, "min")
                         /\ ~DateParse(state.min).nan
                         /\ DateLess(d, DateParse(state.min))
                      THEN FALSE
                 ELSE IF /\ NonBlank(state, "max")
                         /\ ~DateParse(state.max).nan
                         /\ DateLess(DateParse(state.max), d)
                      THEN FALSE
                 ELSE TRUE
         IN  within(NewDate(cell))

hasAnyColumnFilterOf(filters) ==
    \E k \in DOMAIN filters :
        Truthy(filters[k], "text") \/ Truthy(filters[k], "min") \/ Truthy(filters[k], "max")

\* a global clause that also searches hidden columns
matchesGlobalAnyColumn(row, cols, query) ==
    \E i \in DOMAIN cols :
        /\ ~IsAbsent(Cell(row, cols[i].key))
        /\ includes(toLowerCase(String(Cell(row, cols[i].key))), toLowerCase(query))

\* the global clause: some visible column's present cell contains the query
matchesGlobal(row, cols, query) ==
    \E i \in DOMAIN cols :
        /\ cols[i].visible # FALSE
        /\ ~IsAbsent(Cell(row, cols[i].key))
        /\ includes(toLowerCase(String(Cell(row, cols[i].key))), toLowerCase(query))

\* isRange for one column
isRangeOf(col, type) ==
    IF col.filter # Absent THEN col.filter = "range" ELSE isRangeTypeFromType(type)

\* the body of the per-column loop for one column: FALSE is "return false"
columnClause(row, col, type, filters) ==
    IF col.key \notin DOMAIN filters THEN TRUE
    ELSE LET state   == filters[col.key]
             isRange == isRangeOf(col, type)
             cell    == Cell(row, col.key)
         IN  /\ IF ~isRange /\ NonBlank(state, "text")
                THEN /\ ~IsAbsent(cell)
                     /\ includes(toLowerCase(String(cell)), toLowerCase(state.text))
                ELSE TRUE
             /\ IF isRange /\ (Truthy(state, "min") \/ Truthy(state, "max"))
                THEN IF IsNumericType(type) THEN passesNumericRangeFilter(cell, state)
                     ELSE IF IsDateType(type) THEN passesDateRangeFilter(cell, state)
                     ELSE TRUE
                ELSE TRUE

\* a filter that applies the column clauses of the visible columns only
rowPassesVisible(row, cols, types, query, filters) ==
    /\ query # <<>> => matchesGlobal(row, cols, query)
    /\ hasAnyColumnFilterOf(filters) =>
           \A i \in DOMAIN cols :
               cols[i].visible # FALSE =>
                   columnClause(row, cols[i], types[cols[i].key], filters)

\* a filter that keeps a row when either active clause passes
rowPassesEither(row, cols, types, query, filters) ==
    \/ query # <<>> /\ matchesGlobal(row, cols, query)
    \/ /\ hasAnyColumnFilterOf(filters)
       /\ \A i \in DOMAIN cols : columnClause(row, cols[i], types[cols[i].key], filters)

\* the callback of data.filter; types is columnTypeByKey
rowPasses(row, cols, types, query, filters) ==
    /\ query # <<>> => matchesGlobal(row, cols, query)
    /\ hasAnyColumnFilterOf(filters) =>
           \A i \in DOMAIN cols : columnClause(row, cols[i], types[cols[i].key], filters)

\* a filter for which a stored text, empty or not, is an active clause
filterRowsStoredText(d, cols, types, query, filters) ==
    IF query = <<>> /\ DOMAIN filters = {} THEN d
    ELSE SelectSeq(d, LAMBDA row :
             /\ rowPasses(row, cols, types, query, filters)
             /\ \A i \in DOMAIN cols :
                    (cols[i].key \in DOMAIN filters /\ "text" \in DOMAIN filters[cols[i].key]) =>
                        /\ ~IsAbsent(Cell(row, cols[i].key))
                        /\ includes(toLowerCase(String(Cell(row, cols[i].key))),
                                    toLowerCase(filters[cols[i].key].text)))

filterRows(d, cols, types, query, filters) ==
    IF query = <<>> /\ ~hasAnyColumnFilterOf(filters) THEN d
    ELSE SelectSeq(d, LAMBDA row : rowPasses(row, cols, types, query, filters))

-----------------------------------------------------------------------------
(* Formatting (DataTable.tsx formatValueWithType).  Intl is modelled for   *)
(* the locale en-US and the currency USD, on a host whose time zone is UTC *)
(* and whose locale data puts a plain space before AM and PM.              *)

RECURSIVE Pow10(_)
Pow10(k) == IF k <= 0 THEN 1 ELSE 10 * Pow10(k - 1)

\* s with zeros in front up to k characters
RECURSIVE PadLeft(_, _)
PadLeft(s, k) == IF Len(s) >= k THEN s ELSE PadLeft(<<"0">> \o s, k)

\* s without its trailing zeros beyond the first k characters
RECURSIVE StripZerosTo(_, _)
StripZerosTo(s, k) ==
    IF Len(s) > k /\ s[Len(s)] = "0" THEN StripZerosTo(SubSeq(s, 1, Len(s) - 1), k) ELSE s

\* en-US grouping: a comma before every group of three integer digits
RECURSIVE Grouped(_)
Grouped(ds) ==
    IF Len(ds) <= 3 THEN ds
    ELSE Grouped(SubSeq(ds, 1, Len(ds) - 3)) \o <<",">> \o SubSeq(ds, Len(ds) - 2, Len(ds))

\* The digits of a / Scale (a >= 0) with at least minFD and at most maxFD
\* fraction digits, rounded half away from zero (roundingMode halfExpand).
FormatDecimal(a, minFD, maxFD) ==
    LET unit == IF Pow10(maxFD) >= Scale THEN 1 ELSE Scale \div Pow10(maxFD)
        per  == Scale \div unit
        q    == (2 * a + unit) \div (2 * unit)
        frac == IF per = 1 THEN <<>>
                ELSE StripZerosTo(Tail(NatToString(per + (q % per))), minFD)
    IN  Grouped(NatToString(q \div per))
            \o (IF frac = <<>> THEN <<>> ELSE <<".">> \o frac)

USD == <<"U", "S", "D">>

enUS == <<"e", "n", "-", "U", "S">>

\* the currency sign en-US shows for the currency code
CurrencySign(cur) == IF cur = USD THEN <<"$">> ELSE cur \o <<" ">>

\* new Intl.NumberFormat(locale, {style, minimumFractionDigits, maximumFractionDigits}).format(n)
NumberFormat(n, style, cur, minFD, maxFD) ==
    LET a    == IF n < 0 THEN 0 - n ELSE n
        body == FormatDecimal(IF style = "percent" THEN 100 * a ELSE a, minFD, maxFD)
    IN  (IF n < 0 THEN <<"-">> ELSE <<>>)
            \o (IF style = "currency" THEN CurrencySign(cur) ELSE <<>>)
            \o body
            \o (IF style = "percent" THEN <<"%">> ELSE <<>>)

MonthShort ==
    << <<"J", "a", "n">>, <<"F", "e", "b">>, <<"M", "a", "r">>, <<"A", "p", "r">>,
       <<"M", "a", "y">>, <<"J", "u", "n">>, <<"J", "u", "l">>, <<"A", "u", "g">>,
       <<"S", "e", "p">>, <<"O", "c", "t">>, <<"N", "o", "v">>, <<"D", "e", "c">> >>

MinutesPerDay == 24 * 60

\* the calendar fields of a valid time value
DateFields(d) ==
    LET days == d.min \div MinutesPerDay
        y    == CHOOSE yy \in (1969 + (days \div 366)) .. (1971 + (days \div 365)) :
                    DaysBeforeYear(yy) <= days /\ days < DaysBeforeYear(yy + 1)
        doy  == days - DaysBeforeYear(y)
        m    == CHOOSE mm \in 1..12 :
                    /\ DaysBeforeMonth(y, mm) <= doy
                    /\ doy < DaysBeforeMonth(y, mm) + DaysInMonth(y, mm)
    IN  [year   |-> y,
         month  |-> m,
         day    |-> doy - DaysBeforeMonth(y, m) + 1,
         hour   |-> (d.min % MinutesPerDay) \div 60,
         minute |-> d.min % 60]

\* Intl.DateTimeFormat(locale, {year: "numeric", month: "short", day: "2-digit"})
FormatDate(d) ==
    LET f == DateFields(d)
    IN  MonthShort[f.month] \o <<" ">> \o PadLeft(NatToString(f.day), 2)
            \o <<",", " ">> \o NatToString(f.year)

\* the same with hour: "2-digit", minute: "2-digit" (en-US: a 12-hour clock)
FormatDateTime(d) ==
    LET f   == DateFields(d)
        h12 == ((f.hour + 11) % 12) + 1
    IN  FormatDate(d) \o <<",", " ">> \o PadLeft(NatToString(h12), 2) \o <<":">>
            \o PadLeft(NatToString(f.minute), 2) \o <<" ">>
            \o (IF f.hour < 12 THEN <<"A", "M">> ELSE <<"P", "M">>)

\* a value used as a condition (value ? ... : ...)
ToBoolean(v) ==
    CASE v.t = "string"  -> v.s # <<>>
      [] v.t = "number"  -> v.n # 0
      [] v.t = "boolean" -> v.b
      [] OTHER           -> FALSE

\* a formatter that hands a value that does not parse to Intl all the same
formatWithoutFallback(value, type, loc, cur, digits) ==
    IF IsAbsent(value) THEN <<>>
    ELSE IF type = "boolean" \/ value.t = "boolean"
         THEN (IF ToBoolean(value) THEN <<"T", "r", "u", "e">>
               ELSE <<"F", "a", "l", "s", "e">>)
    ELSE IF type \in {"date", "datetime"}
         THEN (IF NewDate(value).nan THEN <<"I", "n", "v", "a", "l", "i", "d">>
               ELSE IF type = "date" THEN FormatDate(NewDate(value))
               ELSE FormatDateTime(NewDate(value)))
    ELSE IF type \in {"integer", "number", "currency", "percent"}
         THEN (IF isNaN(Number(value)) THEN <<"N", "a", "N">>
               ELSE IF type = "integer" THEN NumberFormat(Number(value).v, "decimal", cur, 0, 0)
               ELSE IF type = "currency" THEN NumberFormat(Number(value).v, "currency", cur, 2, 2)
               ELSE IF type = "percent" THEN NumberFormat(Number(value).v, "percent", cur, 0, digits)
               ELSE NumberFormat(Number(value).v, "decimal", cur, 0, 2))
    ELSE String(value)

formatValueWithType(value, type, loc, cur, digits) ==
    IF IsAbsent(value) THEN <<>>
    ELSE IF type = "boolean" \/ value.t = "boolean"
         THEN (IF ToBoolean(value) THEN <<"T", "r", "u", "e">>
               ELSE <<"F", "a", "l", "s", "e">>)
    ELSE IF type \in {"date", "datetime"}
         THEN LET ofDate(d) ==
                      IF d.nan THEN String(value)
                      ELSE IF type = "date" THEN FormatDate(d)
                      ELSE FormatDateTime(d)
              IN  ofDate(NewDate(value))
    ELSE IF type \in {"integer", "number", "currency", "percent"}
         THEN LET ofNumber(n) ==
                      IF isNaN(n) THEN String(value)
                      ELSE IF type = "integer" THEN NumberFormat(n.v, "decimal", cur, 0, 0)
                      ELSE IF type = "currency" THEN NumberFormat(n.v, "currency", cur, 2, 2)
                      ELSE IF type = "percent" THEN NumberFormat(n.v, "percent", cur, 0, digits)
                      ELSE NumberFormat(n.v, "decimal", cur, 0, 2)
              IN  ofNumber(Number(value))
    ELSE String(value)

-----------------------------------------------------------------------------
(* Sort (DataFrameTable sortedData)                                        *)

\* a comparator that reverses absent values too when the direction is desc
compareRowsAbsentReversed(va, vb, dir) ==
    LET na  == Number(va)
        nb  == Number(vb)
        cmp == IF IsAbsent(va) /\ IsAbsent(vb) THEN 0
               ELSE IF IsAbsent(va) THEN 1
               ELSE IF IsAbsent(vb) THEN -1
               ELSE IF ~isNaN(na) /\ ~isNaN(nb) THEN na.v - nb.v
               ELSE localeCompare(String(va), String(vb))
    IN  IF dir = "asc" THEN cmp ELSE 0 - cmp

\* the comparator handed to Array.prototype.sort
compareRows(va, vb, dir) ==
    IF IsAbsent(va) /\ IsAbsent(vb) THEN 0
    ELSE IF IsAbsent(va) THEN 1
    ELSE IF IsAbsent(vb) THEN -1
    ELSE LET na  == Number(va)
             nb  == Number(vb)
             cmp == IF ~isNaN(na) /\ ~isNaN(nb) THEN na.v - nb.v
                    ELSE localeCompare(String(va), String(vb))
         IN  IF dir = "asc" THEN cmp ELSE 0 - cmp

\* Array.prototype.sort is stable: insert each element after the elements
\* that do not compare greater
RECURSIVE InsertSorted(_, _, _, _)
InsertSorted(sorted, row, key, dir) ==
    IF sorted = <<>> THEN <<row>>
    ELSE IF compareRows(Cell(sorted[Len(sorted)], key), Cell(row, key), dir) > 0
         THEN InsertSorted(SubSeq(sorted, 1, Len(sorted) - 1), row, key, dir)
                  \o <<sorted[Len(sorted)]>>
    ELSE sorted \o <<row>>

RECURSIVE StableSort(_, _, _)
StableSort(rows, key, dir) ==
    IF rows = <<>> THEN <<>>
    ELSE InsertSorted(StableSort(SubSeq(rows, 1, Len(rows) - 1), key, dir),
                      rows[Len(rows)], key, dir)

\* a sort that does not look at the column's sortable flag
sortRowsAnyColumn(rows, cols, key, dir) ==
    IF key = NoKey THEN rows ELSE StableSort(rows, key, dir)

sortRows(rows, cols, key, dir) ==
    IF key = NoKey THEN rows
    ELSE IF \E i \in DOMAIN cols : cols[i].key = key /\ cols[i].sortable = FALSE THEN rows
    ELSE StableSort(rows, key, dir)

-----------------------------------------------------------------------------
(* Pagination (DataFrameTable totalPages, safePage, pageData)              *)

Max(a, b) == IF a > b THEN a ELSE b

Min(a, b) == IF a < b THEN a ELSE b

\* Math.ceil(a / b) for b > 0
CeilDiv(a, b) == (a + b - 1) \div b

totalPagesOf(totalRows, pageSize) == Max(1, CeilDiv(totalRows, pageSize))

\* the stored page shown as it is, without the clamp
safePageUnclamped(page, pages) == page

safePageOf(page, pages) == Min(page, pages - 1)

\* Array.prototype.slice(start, end) for 0 <= start <= end
slice(rows, start, end) == SubSeq(rows, start + 1, Min(end, Len(rows)))

\* a page slice that stops one row early
pageDataShort(rows, page, pageSize) == slice(rows, page * pageSize, page * pageSize + pageSize - 1)

pageDataOf(rows, page, pageSize) == slice(rows, page * pageSize, page * pageSize + pageSize)

-----------------------------------------------------------------------------
(* The props and inputs the model draws from                               *)

Day15 == <<"2", "0", "2", "5", "-", "1", "1", "-", "1", "5">>

Day16 == <<"2", "0", "2", "5", "-", "1", "1", "-", "1", "6">>

Day17 == <<"2", "0", "2", "5", "-", "1", "1", "-", "1", "7">>

\* a date with a time of day
Noon15 == Day15 \o <<"T", "1", "2", ":", "0", "0">>

\* seven records; one price is null, one date is null, one record has no code
Sales ==
    << [date |-> Str(Day15), store |-> Str(<<"N", "a">>), price |-> Num(125000), code |-> Str(<<"c">>)],
       [date |-> Str(Day16), store |-> Str(<<"b">>),      price |-> Num(449900), code |-> Str(<<"a", "n">>)],
       [date |-> Str(Day17), store |-> Str(<<"b">>),      price |-> Null,        code |-> Str(<<"b">>)],
       [date |-> Null,       store |-> Str(<<"c">>),      price |-> Num(70000)],
       [date |-> Str(Day15), store |-> Str(<<"n">>),      price |-> Num(125000), code |-> Str(<<"c">>)],
       [date |-> Str(Day16), store |-> Str(<<"c">>),      price |-> Num(200000), code |-> Str(<<"N">>)],
       [date |-> Str(Day17), store |-> Str(<<"N", "a">>), price |-> Num(1200000), code |-> Str(<<"b">>)] >>

\* three records
Few ==
    << [date |-> Str(Day16), store |-> Str(<<"c">>),      price |-> Num(449900), code |-> Str(<<"N">>)],
       [date |-> Str(Day15), store |-> Str(<<"N", "a">>), price |-> Num(125000), code |-> Str(<<"b">>)],
       [date |-> Str(Day17), store |-> Str(<<"b">>),      price |-> Num(200000), code |-> Str(<<"c">>)] >>

DataSets == {<<>>, Few, Sales}

\* three records whose text holds a comma, a double quote and a line break;
\* one date is not a date, one is null, one record has no code
Notes ==
    << [date |-> Str(Day15), store |-> Str(<<"a", ",", "b">>), price |-> Num(1234 * Scale + 5000),
        code |-> Str(<<"x", "\"", "y">>)],
       [date |-> Str(<<"x">>), store |-> Str(<<"b", "\n", "c">>), price |-> Num(5000)],
       [date |-> Null, store |-> Str(<<"N", "a">>), price |-> Num(0 - 7 * Scale),
        code |-> Str(<<"c">>)] >>

\* four records: the second has no price and no code, the third has null
\* for them and for its date, the fourth has no date
Gaps ==
    << [date |-> Str(Day16), store |-> Str(<<"c">>), price |-> Num(449900), code |-> Str(<<"N">>)],
       [date |-> Str(Day15), store |-> Str(<<"N", "a">>)],
       [date |-> Null, store |-> Str(<<"b">>), price |-> Null, code |-> Null],
       [store |-> Str(<<"n">>), price |-> Num(125000), code |-> Str(<<"b">>)] >>

\* the datasets of the export specification
ExportDataSets == {<<>>, Sales, Notes}

\* an explicit schema: store has filter "none" and is not sortable, code is hidden
FullColumns ==
    << [key |-> "date",  label |-> <<"D", "a", "t", "e">>, type |-> "date", filter |-> "range"],
       [key |-> "store", filter |-> "none", sortable |-> FALSE],
       [key |-> "price", label |-> <<"P", "r", "i", "c", "e">>, type |-> "currency",
        align |-> "right", filter |-> "range"],
       [key |-> "code",  visible |-> FALSE] >>

NoOverrides == [k \in {} |-> "string"]

FullOverrides == [k \in {"price", "code"} |-> IF k = "price" THEN "number" ELSE "string"]

\* props.columns and props.columnTypes: not supplied, or the explicit schema
Schemas == {[columns |-> <<>>, columnTypes |-> NoOverrides],
            [columns |-> FullColumns, columnTypes |-> FullOverrides]}

\* a schema without any visible column; price has a type of its own
HiddenColumns ==
    << [key |-> "store", visible |-> FALSE],
       [key |-> "price", visible |-> FALSE, type |-> "number"],
       [key |-> "code", visible |-> FALSE] >>

\* overrides for a column with a type of its own and for one without
HiddenOverrides == [k \in {"price", "code"} |-> IF k = "price" THEN "integer" ELSE "number"]

\* the schemas of the export specification
ExportSchemas == Schemas \cup {[columns |-> HiddenColumns, columnTypes |-> HiddenOverrides]}

\* a schema whose labels hold a comma and a double quote
LabelColumns ==
    << [key |-> "store", label |-> <<"S", "h", "o", "p", ",", " ", "c", "i", "t", "y">>],
       [key |-> "price", label |-> <<"P", "r", "i", "c", "e", " ", "\"", "n", "e", "t", "\"">>],
       [key |-> "code"] >>

\* the schemas of the specification over records that lack keys
RecordSchemas == Schemas \cup {[columns |-> LabelColumns, columnTypes |-> NoOverrides]}

RowsPerPageOptions == {2, 10}

DefaultRowsPerPage == 10

SearchInputs == {<<>>, <<"N">>}

TextInputs == {<<>>, <<"N">>}

NumericBoundInputs == {<<"2", "0">>, <<"x">>}

DateBoundInputs == {Day16, <<"x">>}

\* the most filter fields the model stores at once
MaxFilterFields == 1

-----------------------------------------------------------------------------
(* The derived values of one render                                        *)

\* useMemo: the normalised columns of each (columns, data), computed once
ColumnsMemo ==
    [d \in DataSets \cup ExportDataSets \cup {Gaps} |->
        [sp \in ExportSchemas \cup RecordSchemas |-> columnsOf(sp.columns, d)]]

columns == ColumnsMemo[data][schemaProps]

\* useMemo: the column types of each (data, columns, columnTypes), computed once
TypeMemo ==
    [d \in DataSets \cup ExportDataSets \cup {Gaps} |->
        [sp \in ExportSchemas \cup RecordSchemas |->
            columnTypeByKeyOf(columnsOf(sp.columns, d), d, sp.columnTypes)]]

columnTypeByKey == TypeMemo[data][schemaProps]

filteredData == filterRows(data, columns, columnTypeByKey, searchQuery, columnFilters)

sortedData == sortRows(filteredData, columns, sortKey, sortDirection)

totalRows == Len(sortedData)

totalPages == totalPagesOf(totalRows, rowsPerPage)

safePage == safePageOf(currentPage, totalPages)

pageData == pageDataOf(sortedData, safePage, rowsPerPage)

\* Which array a stage hands on: the caller's array ("data") or one the stage
\* allocated ("fresh").  filteredData returns data itself when no filter is
\* active and the result of data.filter otherwise.
filteredArrayOf(query, filters) ==
    IF query = <<>> /\ ~hasAnyColumnFilterOf(filters) THEN "data" ELSE "fresh"

\* sortedData gets past its two early returns and calls Array.prototype.sort
sortCalledOf(cols, key) ==
    /\ key # NoKey
    /\ ~\E i \in DOMAIN cols : cols[i].key = key /\ cols[i].sortable = FALSE

\* a sort that writes into the array it was handed
sortTargetInPlace(filteredArray) == filteredArray

\* the array sort() writes into: copy = filteredData.slice()
sortTargetOf(filteredArray) == "fresh"

\* The caller's array once the render has run: sort() is the one call of the
\* pipeline that writes into an array (filter, slice and map allocate, the
\* CSV export and the cell formatter only read).
dataAfterRender ==
    IF /\ sortCalledOf(columns, sortKey)
       /\ sortTargetOf(filteredArrayOf(searchQuery, columnFilters)) = "data"
    THEN StableSort(data, sortKey, sortDirection)
    ELSE data

\* the props locale, currency and percentDigits at their defaults
locale == enUS

currency == USD

percentDigits == 2

\* columnTypeByKey[key] ?? "string"
typeOrString(types, key) == IF key \in DOMAIN types THEN types[key] ELSE "string"

\* what a table cell shows: the placeholder element, or a text
Placeholder == [t |-> "placeholder"]

Text(s) == [t |-> "text", s |-> s]

typedFormatCell(value, columnKey) ==
    IF IsAbsent(value) THEN Placeholder
    ELSE Text(formatValueWithType(value, typeOrString(columnTypeByKey, columnKey),
                                  locale, currency, percentDigits))

\* a selection that keeps the hidden columns too
visibleColumnsAll(cols) == cols

\* columns.filter(c => c.visible !== false)
visibleColumnsOf(cols) ==
    LET Shown(c) == c.visible # FALSE
    IN  SelectSeq(cols, Shown)

\* the page as an array of arrays, one entry per schema column
rowsMatrix ==
    LET cols == columns
        page == pageData
    IN  IF cols = <<>> THEN <<>>
        ELSE [r \in DOMAIN page |-> [c \in DOMAIN cols |-> Cell(page[r], cols[c].key)]]

\* columns.findIndex(c => c.key === key), counted from 1; 0 when there is none
findIndex(cols, key) ==
    IF \E i \in DOMAIN cols : cols[i].key = key
    THEN CHOOSE i \in DOMAIN cols :
             cols[i].key = key /\ \A j \in 1..(i - 1) : cols[j].key # key
    ELSE 0

\* DataTable body: for each row of the page and each visible column, the cell content
tableCells ==
    LET cols == columns
        vis  == visibleColumnsOf(cols)
        rows == rowsMatrix
    IN  [r \in DOMAIN rows |->
            [v \in DOMAIN vis |->
                LET colIndex == findIndex(cols, vis[v].key)
                    value    == IF colIndex > 0 THEN rows[r][colIndex] ELSE Undef
                IN  typedFormatCell(value, vis[v].key)]]

\* String.prototype.replace(/"/g, '""')
RECURSIVE doubleQuotes(_)
doubleQuotes(s) ==
    IF s = <<>> THEN <<>>
    ELSE (IF Head(s) = "\"" THEN <<"\"", "\"">> ELSE <<Head(s)>>) \o doubleQuotes(Tail(s))

\* /[",\n]/.test(s)
needsQuotes(s) == \E i \in DOMAIN s : s[i] \in {"\"", ",", "\n"}

\* Array.prototype.join
RECURSIVE join(_, _)
join(parts, sep) ==
    IF parts = <<>> THEN <<>>
    ELSE IF Len(parts) = 1 THEN parts[1]
    ELSE parts[1] \o sep \o join(Tail(parts), sep)

\* an export that writes the plain string form of the value
csvFormattedPlain(row, col, types) == String(Cell(row, col.key))

\* the text exportToCsv formats for a present cell, before quoting
csvFormatted(row, col, types) ==
    formatValueWithType(Cell(row, col.key), typeOrString(types, col.key),
                        locale, currency, percentDigits)

\* an export that wraps every field in quotes
csvCellAlwaysQuoted(row, col, types) ==
    <<"\"">> \o doubleQuotes(csvFormatted(row, col, types)) \o <<"\"">>

\* the callback of visibleColumns.map inside rows.forEach
csvCell(row, col, types) ==
    IF IsAbsent(Cell(row, col.key)) THEN <<>>
    ELSE LET quoted(safe) == IF needsQuotes(safe) THEN <<"\"">> \o safe \o <<"\"">> ELSE safe
         IN  quoted(doubleQuotes(csvFormatted(row, col, types)))

\* an export of the rows of the current page
exportRowsOfPage(sorted) == pageDataOf(sorted, safePage, rowsPerPage)

\* const rows = sortedData
exportRowsOf(sorted) == sorted

\* the csv text for the visible columns vis (not empty)
csvOf(vis, rows, types) ==
    join([v \in DOMAIN vis |-> vis[v].label], <<",">>) \o <<"\n">>
        \o join([r \in DOMAIN rows |->
                    join([v \in DOMAIN vis |-> csvCell(rows[r], vis[v], types)], <<",">>)
                        \o <<"\n">>],
                <<>>)

\* DataTable.getFilterMode
getFilterMode(col) ==
    IF col.filter # Absent THEN col.filter
    ELSE LET t == IF col.type # Absent THEN col.type ELSE columnTypeByKey[col.key]
         IN  IF isRangeTypeFromType(t) THEN "range" ELSE "text"

\* DataTable.getAlignClass: the text alignment of the column's header and cells
getAlignClass(col) ==
    LET numericLike == col.type \in {"number", "integer", "currency", "percent"}
        align == IF col.align # Absent THEN col.align
                 ELSE IF numericLike THEN "right" ELSE "left"
    IN  IF align = "center" THEN "center"
        ELSE IF align = "right" THEN "right"
        ELSE "left"

ColumnByKey(key) ==
    LET cols == columns
    IN  cols[CHOOSE i \in DOMAIN cols : cols[i].key = key]

\* DataTable.visibleColumns, as keys
VisibleKeys ==
    LET cols == columns
    IN  {cols[i].key : i \in {j \in DOMAIN cols : cols[j].visible # FALSE}}

\* the visible columns whose header takes clicks
SortableKeys == {k \in VisibleKeys : ColumnByKey(k).sortable # FALSE}

\* the number of fields stored in all entries of the filters
StoredFields(filters) ==
    Cardinality({kf \in (DOMAIN filters) \X {"text", "min", "max"} :
                    kf[2] \in DOMAIN filters[kf[1]]})

-----------------------------------------------------------------------------
(* The component: state after construction, the handlers, and new props    *)

\* the most requests of the purchase form that are posted and not completed
MaxPending == 2

NoProbe == [kind |-> "none"]

NoOut == [kind |-> "none"]

\* the history record of a handler: its name, and whether it ran on a later page;
\* for handleSort also the column, how many handleSort calls on that column ran in
\* a row (1, or 2 for two or more), and, taken before the latest two of them (the
\* latest one when run is 1), the direction and whether the column was the sort key
NoRun == [key |-> NoKey, run |-> 0, wasKey |-> FALSE, dir0 |-> "asc"]

Op(name) == [name |-> name, moved |-> currentPage > 0, sort |-> NoRun]

SortOp(columnKey) ==
    [name  |-> "handleSort",
     moved |-> currentPage > 0,
     sort  |-> IF lastOp.name = "handleSort" /\ lastOp.sort.key = columnKey
               THEN [key    |-> columnKey,
                     run    |-> 2,
                     wasKey |-> IF lastOp.sort.run = 1 THEN lastOp.sort.wasKey ELSE TRUE,
                     dir0   |-> IF lastOp.sort.run = 1 THEN lastOp.sort.dir0
                                ELSE IF sortDirection = "asc" THEN "desc" ELSE "asc"]
               ELSE [key    |-> columnKey,
                     run    |-> 1,
                     wasKey |-> sortKey = columnKey,
                     dir0   |-> sortDirection]]

Init ==
    /\ data \in DataSets
    /\ schemaProps \in Schemas
    /\ searchQuery = <<>>
    /\ sortKey = NoKey
    /\ sortDirection = "asc"
    /\ rowsPerPage = DefaultRowsPerPage
    /\ currentPage = 0
    /\ columnFilters = [k \in {} |-> [f \in {} |-> <<>>]]
    /\ lastOp = [name |-> "init", moved |-> FALSE, sort |-> NoRun]
    /\ probe = NoProbe
    /\ out = NoOut

\* a header click that always starts over in ascending order
sortAfterAlwaysAsc(key, dir, columnKey) == [key |-> columnKey, dir |-> "asc"]

\* the sort state after handleSort(columnKey)
sortAfter(key, dir, columnKey) ==
    IF key = columnKey
    THEN [key |-> key, dir |-> IF dir = "asc" THEN "desc" ELSE "asc"]
    ELSE [key |-> columnKey, dir |-> "asc"]

pageAfterSort == 0

\* the header of a column is clicked (Next offers the visible, sortable columns)
handleSort(columnKey) ==
    /\ currentPage' = pageAfterSort
    /\ sortKey' = sortAfter(sortKey, sortDirection, columnKey).key
    /\ sortDirection' = sortAfter(sortKey, sortDirection, columnKey).dir
    /\ lastOp' = SortOp(columnKey)
    /\ out' = NoOut
    /\ UNCHANGED <<data, schemaProps, searchQuery, rowsPerPage, columnFilters, probe>>

pageAfterSearch == 0

handleSearchChange(value) ==
    /\ searchQuery' = value
    /\ currentPage' = pageAfterSearch
    /\ lastOp' = Op("handleSearchChange")
    /\ out' = NoOut
    /\ UNCHANGED <<data, schemaProps, sortKey, sortDirection, rowsPerPage, columnFilters, probe>>

pageAfterRowsPerPage == 0

handleRowsPerPageChange(value) ==
    /\ rowsPerPage' = value
    /\ currentPage' = pageAfterRowsPerPage
    /\ lastOp' = Op("handleRowsPerPageChange")
    /\ out' = NoOut
    /\ UNCHANGED <<data, schemaProps, searchQuery, sortKey, sortDirection, columnFilters, probe>>

\* a merge that stores the patch in place of the column's entry
mergeFilterReplace(prev, columnKey, patch) ==
    [k \in DOMAIN prev \cup {columnKey} |-> IF k = columnKey THEN patch ELSE prev[k]]

\* {...prev, [columnKey]: {...existing, ...patch}}
mergeFilter(prev, columnKey, patch) ==
    LET existing == IF columnKey \in DOMAIN prev THEN prev[columnKey] ELSE [f \in {} |-> <<>>]
        merged   == [f \in DOMAIN existing \cup DOMAIN patch |->
                        IF f \in DOMAIN patch THEN patch[f] ELSE existing[f]]
    IN  [k \in DOMAIN prev \cup {columnKey} |-> IF k = columnKey THEN merged ELSE prev[k]]

\* the inputs the filter row offers for a visible column: none, min and max, or text
FilterPatches(col) ==
    LET mode == getFilterMode(col)
        type == columnTypeByKey[col.key]
        bounds == IF IsDateType(type) THEN DateBoundInputs ELSE NumericBoundInputs
    IN  IF mode = "none" THEN {}
        ELSE IF mode = "range"
             THEN {[f \in {"min"} |-> v] : v \in bounds} \cup {[f \in {"max"} |-> v] : v \in bounds}
        ELSE {[f \in {"text"} |-> v] : v \in TextInputs}

\* a filter change that keeps the stored page
pageKept == currentPage

pageAfterFilter == 0

\* a filter input is edited (Next offers the inputs of the visible columns)
handleColumnFilterChange(columnKey, patch) ==
    LET merged == mergeFilter(columnFilters, columnKey, patch)
    IN  /\ StoredFields(merged) <= Max(MaxFilterFields, StoredFields(columnFilters))
        /\ columnFilters' = merged
        /\ currentPage' = pageAfterFilter
        /\ lastOp' = Op("handleColumnFilterChange")
        /\ out' = NoOut
        /\ UNCHANGED <<data, schemaProps, searchQuery, sortKey, sortDirection, rowsPerPage, probe>>

previousPageOf(prev) == Max(0, prev - 1)

\* the Prev button, disabled on the first shown page
goToPreviousPage ==
    /\ safePage # 0
    /\ currentPage' = previousPageOf(currentPage)
    /\ lastOp' = Op("goToPreviousPage")
    /\ out' = NoOut
    /\ UNCHANGED <<data, schemaProps, searchQuery, sortKey, sortDirection, rowsPerPage,
                   columnFilters, probe>>

nextPageOf(prev, pages) == Min(pages - 1, prev + 1)

\* the Next button, disabled on the last shown page
goToNextPage ==
    LET step(pages) ==
            /\ ~(safePageOf(currentPage, pages) >= pages - 1)
            /\ currentPage' = nextPageOf(currentPage, pages)
    IN  /\ step(totalPages)
        /\ lastOp' = Op("goToNextPage")
        /\ out' = NoOut
        /\ UNCHANGED <<data, schemaProps, searchQuery, sortKey, sortDirection, rowsPerPage,
                       columnFilters, probe>>

\* the parent renders the component with another dataset
receiveData(d) ==
    /\ d # data
    /\ data' = d
    /\ lastOp' = Op("receiveProps")
    /\ out' = NoOut
    /\ UNCHANGED <<schemaProps, searchQuery, sortKey, sortDirection, rowsPerPage, currentPage,
                   columnFilters, probe>>

\* the parent renders the component with another schema
receiveColumns(sp) ==
    /\ sp # schemaProps
    /\ schemaProps' = sp
    /\ lastOp' = Op("receiveProps")
    /\ out' = NoOut
    /\ UNCHANGED <<data, searchQuery, sortKey, sortDirection, rowsPerPage, currentPage,
                   columnFilters, probe>>

Next ==
    \/ \E k \in SortableKeys : handleSort(k)
    \/ \E v \in SearchInputs : handleSearchChange(v)
    \/ \E v \in RowsPerPageOptions : handleRowsPerPageChange(v)
    \/ \E k \in VisibleKeys :
           \E patch \in FilterPatches(ColumnByKey(k)) : handleColumnFilterChange(k, patch)
    \/ goToPreviousPage
    \/ goToNextPage
    \/ \E d \in DataSets : receiveData(d)
    \/ \E sp \in Schemas : receiveColumns(sp)

Spec == Init /\ [][Next]_vars

\* the behaviours in which only the search box, the filter row and the props
\* change: they reach every (data, schema, query, filters) that Spec reaches
FilterNext ==
    \/ \E v \in SearchInputs : handleSearchChange(v)
    \/ \E k \in VisibleKeys :
           \E patch \in FilterPatches(ColumnByKey(k)) : handleColumnFilterChange(k, patch)
    \/ \E d \in DataSets : receiveData(d)
    \/ \E sp \in Schemas : receiveColumns(sp)

FilterSpec == Init /\ [][FilterNext]_vars

\* the Export CSV button: nothing is downloaded without a visible column
exportToCsv ==
    LET visibleColumns == visibleColumnsOf(columns)
    IN  /\ out' = IF visibleColumns = <<>> THEN NoOut
                  ELSE [kind |-> "csv",
                        text |-> csvOf(visibleColumns, exportRowsOf(sortedData), columnTypeByKey)]
        /\ lastOp' = Op("exportToCsv")
        /\ UNCHANGED <<data, schemaProps, searchQuery, sortKey, sortDirection, rowsPerPage,
                       currentPage, columnFilters, probe>>

\* the component over the export datasets and schemas
ExportInit ==
    /\ data \in ExportDataSets
    /\ schemaProps \in ExportSchemas
    /\ searchQuery = <<>>
    /\ sortKey = NoKey
    /\ sortDirection = "asc"
    /\ rowsPerPage = DefaultRowsPerPage
    /\ currentPage = 0
    /\ columnFilters = [k \in {} |-> [f \in {} |-> <<>>]]
    /\ lastOp = [name |-> "init", moved |-> FALSE, sort |-> NoRun]
    /\ probe = NoProbe
    /\ out = NoOut

\* the behaviours of search, sort, pagination, props and export
ExportNext ==
    \/ \E k \in SortableKeys : handleSort(k)
    \/ \E v \in SearchInputs : handleSearchChange(v)
    \/ \E v \in RowsPerPageOptions : handleRowsPerPageChange(v)
    \/ goToPreviousPage
    \/ goToNextPage
    \/ \E d \in ExportDataSets : receiveData(d)
    \/ \E sp \in ExportSchemas : receiveColumns(sp)
    \/ exportToCsv

ExportSpec == ExportInit /\ [][ExportNext]_vars

-----------------------------------------------------------------------------
(* The sort comparator applied to cell values                              *)

\* cell values of every kind a column can hold
CompareValues ==
    {Num(2 * Scale), Num(10 * Scale), Str(<<"1", "0">>), Str(<<"1", "a">>), Str(<<"b">>),
     Bool(TRUE), Null, Undef}

\* three cell values and a direction are chosen
CompareInit ==
    /\ data = <<>>
    /\ schemaProps = [columns |-> <<>>, columnTypes |-> NoOverrides]
    /\ searchQuery = <<>>
    /\ sortKey = NoKey
    /\ sortDirection \in {"asc", "desc"}
    /\ rowsPerPage = DefaultRowsPerPage
    /\ currentPage = 0
    /\ columnFilters = [k \in {} |-> [f \in {} |-> <<>>]]
    /\ lastOp = [name |-> "init", moved |-> FALSE, sort |-> NoRun]
    /\ probe \in [kind : {"compare"}, a : CompareValues, b : CompareValues, c : CompareValues]
    /\ out = NoOut

\* the comparator is applied to each ordered pair of the three values
compareCells ==
    /\ probe.kind = "compare"
    /\ out = NoOut
    /\ out' = [kind |-> "compare",
               ab |-> compareRows(probe.a, probe.b, sortDirection),
               ba |-> compareRows(probe.b, probe.a, sortDirection),
               bc |-> compareRows(probe.b, probe.c, sortDirection),
               ac |-> compareRows(probe.a, probe.c, sortDirection)]
    /\ UNCHANGED <<data, schemaProps, searchQuery, sortKey, sortDirection, rowsPerPage,
                   currentPage, columnFilters, lastOp, probe>>

CompareNext == compareCells

CompareSpec == CompareInit /\ [][CompareNext]_vars

-----------------------------------------------------------------------------
(* The range clause applied to one cell and one filter entry               *)

\* the view state of a freshly constructed component over no data
IdleView ==
    /\ data = <<>>
    /\ schemaProps = [columns |-> <<>>, columnTypes |-> NoOverrides]
    /\ searchQuery = <<>>
    /\ sortKey = NoKey
    /\ sortDirection = "asc"
    /\ rowsPerPage = DefaultRowsPerPage
    /\ currentPage = 0
    /\ columnFilters = [k \in {} |-> [f \in {} |-> <<>>]]
    /\ lastOp = [name |-> "init", moved |-> FALSE, sort |-> NoRun]

RangeTypes == {"number", "integer", "currency", "percent", "date", "datetime"}

\* cells of a range-mode column: numbers, numeric and other text, dates, booleans, absent
RangeCells ==
    {Num(12 * Scale + 5000), Num(20 * Scale), Num(44 * Scale + 9900), Str(<<"2", "0">>),
     Str(<<"x">>), Str(Day15), Str(Day16), Str(Day17), Bool(TRUE), Null, Undef}

\* what the min and max inputs hold
RangeBounds == NumericBoundInputs \cup DateBoundInputs \cup {<<"4", "4", ".", "9", "9">>, Day17}

\* the entries with min, max, both or neither
RangeEntries ==
    {[f \in {} |-> <<>>]}
        \cup {[f \in {"min"} |-> v] : v \in RangeBounds}
        \cup {[f \in {"max"} |-> v] : v \in RangeBounds}
        \cup {[f \in {"min", "max"} |-> IF f = "min" THEN b[1] ELSE b[2]] :
                  b \in RangeBounds \X RangeBounds}

RangeInit ==
    /\ IdleView
    /\ probe \in [kind : {"range"}, type : RangeTypes, cell : RangeCells, entry : RangeEntries]
    /\ out = NoOut

\* the per-column loop body runs for a record {price: cell} and a range-mode column
applyRangeClause ==
    /\ probe.kind = "range"
    /\ out = NoOut
    /\ out' = [kind |-> "range",
               pass |-> columnClause([k \in {"price"} |-> probe.cell],
                                     NormalizeColumn([key |-> "price", filter |-> "range"]),
                                     probe.type,
                                     [k \in {"price"} |-> probe.entry])]
    /\ UNCHANGED <<data, schemaProps, searchQuery, sortKey, sortDirection, rowsPerPage,
                   currentPage, columnFilters, lastOp, probe>>

RangeNext == applyRangeClause

RangeSpec == RangeInit /\ [][RangeNext]_vars

-----------------------------------------------------------------------------
(* The component over records that lack keys of the schema                 *)

RecordInit ==
    /\ data = Gaps
    /\ schemaProps \in RecordSchemas
    /\ searchQuery = <<>>
    /\ sortKey = NoKey
    /\ sortDirection = "asc"
    /\ rowsPerPage = DefaultRowsPerPage
    /\ currentPage = 0
    /\ columnFilters = [k \in {} |-> [f \in {} |-> <<>>]]
    /\ lastOp = [name |-> "init", moved |-> FALSE, sort |-> NoRun]
    /\ probe = NoProbe
    /\ out = NoOut

\* the behaviours of search, filter, sort and export
RecordNext ==
    \/ \E k \in SortableKeys : handleSort(k)
    \/ \E v \in SearchInputs : handleSearchChange(v)
    \/ \E k \in VisibleKeys :
           \E patch \in FilterPatches(ColumnByKey(k)) : handleColumnFilterChange(k, patch)
    \/ exportToCsv

RecordSpec == RecordInit /\ [][RecordNext]_vars

-----------------------------------------------------------------------------
(* The component with filters stored on several columns, two rows a page   *)

\* filters the user has typed: two fields on one column, a field on another
StoredFilters ==
    {[k \in {"price", "store"} |->
         IF k = "price" THEN [f \in {"min", "max"} |-> IF f = "min" THEN <<"2", "0">> ELSE <<"x">>]
         ELSE [f \in {"text"} |-> <<>>]],
     [k \in {"date", "code"} |->
         IF k = "date" THEN [f \in {"min", "max"} |-> IF f = "min" THEN Day16 ELSE Day16]
         ELSE [f \in {"text"} |-> <<>>]]}

FrameInit ==
    /\ data = Sales
    /\ schemaProps = [columns |-> <<>>, columnTypes |-> NoOverrides]
    /\ searchQuery = <<>>
    /\ sortKey = NoKey
    /\ sortDirection = "asc"
    /\ rowsPerPage \in RowsPerPageOptions
    /\ currentPage = 0
    /\ columnFilters \in StoredFilters
    /\ lastOp = [name |-> "init", moved |-> FALSE, sort |-> NoRun]
    /\ probe = NoProbe
    /\ out = NoOut

\* the behaviours of search, sort, filter edits and the page buttons
FrameNext ==
    \/ \E k \in SortableKeys : handleSort(k)
    \/ \E v \in SearchInputs : handleSearchChange(v)
    \/ \E k \in VisibleKeys :
           \E patch \in FilterPatches(ColumnByKey(k)) : handleColumnFilterChange(k, patch)
    \/ goToPreviousPage
    \/ goToNextPage

FrameSpec == FrameInit /\ [][FrameNext]_vars

-----------------------------------------------------------------------------
(* The formatter applied to one value under one column type                *)

FormatTypes == RangeTypes \cup {"string", "boolean"}

\* values that fit a type and values that do not
FormatCells ==
    RangeCells \cup {Str(<<"N", "a">>), Str(<<>>), Str(Noon15), Num(0 - 7 * Scale), Bool(FALSE)}

\* text with digits that is no ISO date is kept out of the date types
FormatInit ==
    /\ IdleView
    /\ probe \in [kind : {"format"}, value : FormatCells, type : FormatTypes]
    /\ ~(probe.type \in {"date", "datetime"} /\ probe.value = Str(<<"2", "0">>))
    /\ out = NoOut

\* formatValueWithType is called with the component's locale, currency and digits
applyFormat ==
    /\ probe.kind = "format"
    /\ out = NoOut
    /\ out' = [kind |-> "format",
               text |-> formatValueWithType(probe.value, probe.type, locale, currency,
                                            percentDigits)]
    /\ UNCHANGED <<data, schemaProps, searchQuery, sortKey, sortDirection, rowsPerPage,
                   currentPage, columnFilters, lastOp, probe>>

FormatNext == applyFormat

FormatSpec == FormatInit /\ [][FormatNext]_vars

-----------------------------------------------------------------------------
(* Type inference applied to one key and one column of values              *)

\* column keys: with a percent word, a currency word, both, neither, in either case
InferKeys ==
    {<<"p", "r", "i", "c", "e">>,
     <<"c", "o", "n", "v", "e", "r", "s", "i", "o", "n", "_", "r", "a", "t", "e">>,
     <<"r", "a", "t", "e", "_", "p", "r", "i", "c", "e">>,
     <<"P", "C", "T">>,
     <<"N", "e", "t", "R", "e", "v">>,
     <<"c", "o", "d", "e">>,
     <<"U", "n", "i", "t", "C", "o", "s", "t">>,
     <<"r", "a", "t", "i", "n", "g">>}

\* SampleSize values: the values of base again and again
Cycle(base) == [i \in 1..SampleSize |-> base[((i - 1) % Len(base)) + 1]]

Reverse(seq) == [i \in 1..Len(seq) |-> seq[Len(seq) + 1 - i]]

\* columns longer than the sample: the same SampleSize present values in two
\* orders, with absent values before, among and after them, and with
\* further values behind them
LongColumns ==
    UNION {
        {c,
         c \o <<Num(7 * Scale + 5000)>>,
         c \o <<Str(<<"N", "a">>)>>,
         <<Null>> \o c \o <<Undef, Str(Day15)>>,
         Reverse(c) \o <<Bool(TRUE)>>,
         SubSeq(c, 1, 7) \o <<Undef, Null>> \o SubSeq(c, 8, SampleSize) \o <<Num(3 * Scale)>>}
        : c \in {Cycle(<<Num(5000), Num(Scale)>>),
                 Cycle(<<Bool(FALSE), Str(Noon15), Num(Scale)>>),
                 Cycle(<<Bool(TRUE)>>)}}

\* columns of numbers, with booleans and absent values among them; columns
\* of dates, of dates with a time, of text, and mixtures of them
InferColumns ==
    LongColumns \cup
    {<<Num(834), Num(1250), Num(1400)>>,
     <<Num(12 * Scale + 5000), Num(44 * Scale + 9900)>>,
     <<Num(0), Num(Scale)>>,
     <<Num(Scale), Num(2 * Scale), Num(7 * Scale)>>,
     <<Num(5000), Num(2 * Scale)>>,
     <<Num(0 - Scale), Num(5000)>>,
     <<Null, Num(3 * Scale), Undef>>,
     <<Bool(TRUE), Num(5000)>>,
     <<Bool(FALSE), Num(12 * Scale)>>,
     <<Num(Scale + 1)>>,
     <<Null, Num(2500)>>,
     <<Num(1200 * Scale), Num(3 * Scale)>>,
     <<Str(<<"N", "a">>), Num(2 * Scale)>>,
     <<Null, Undef>>,
     <<Bool(TRUE), Bool(FALSE)>>,
     <<Undef, Bool(FALSE)>>,
     <<Str(Day15), Str(Day16)>>,
     <<Str(Day15), Null, Str(Noon15)>>,
     <<Num(5000), Str(Day16), Num(3 * Scale)>>,
     <<Bool(TRUE), Str(Day17)>>,
     <<Bool(FALSE), Str(Noon15), Num(Scale)>>,
     <<Str(Day15), Str(<<"N", "a">>)>>,
     <<Str(<<>>), Num(2 * Scale)>>,
     <<Str(<<" ">>), Num(5000), Bool(TRUE)>>,
     <<Str(<<"T">>), Str(Day15)>>}

InferInit ==
    /\ IdleView
    /\ probe \in [kind : {"infer"}, key : InferKeys, values : InferColumns]
    /\ out = NoOut

\* inferColumnType is called with the key and the column's values
applyInfer ==
    /\ probe.kind = "infer"
    /\ out = NoOut
    /\ out' = [kind |-> "infer", type |-> inferColumnType(probe.key, probe.values)]
    /\ UNCHANGED <<data, schemaProps, searchQuery, sortKey, sortDirection, rowsPerPage,
                   currentPage, columnFilters, lastOp, probe>>

InferNext == applyInfer

InferSpec == InferInit /\ [][InferNext]_vars

-----------------------------------------------------------------------------
(* The purchase form (PurchaseForm.tsx).  The state of the component is    *)
(* carried in probe: the field values, the fields with an error, the       *)
(* flags and messages, and the number of posted requests that have not     *)
(* completed.  A handler, and the continuation of handleSubmit after its   *)
(* await, each run to completion as one step.                              *)

FieldNames == {"date", "store", "category", "amount", "notes"}

\* the texts an input may be given
FieldTexts(name) ==
    CASE name = "date"     -> {<<>>, Day15}
      [] name = "store"    -> {<<>>, <<" ">>, <<"a">>}
      [] name = "category" -> {<<>>, <<"c">>}
      [] name = "amount"   -> {<<>>, <<"5">>, <<"0">>, <<"x">>}
      [] name = "notes"    -> {<<>>, <<"n">>}

EmptyValues == [name \in FieldNames |-> <<>>]

\* a message that is null
NoMessage == [set |-> FALSE, text |-> ""]

Message(text) == [set |-> TRUE, text |-> text]

\* the submit button is enabled whatever the state
submitAlwaysEnabled(form) == TRUE

\* <button type="submit" disabled={isSubmitting}>
submitEnabled(form) == ~form.isSubmitting

\* validate(values): the fields that get an error
validate(values) ==
    {name \in {"date"} : values[name] = <<>>}
    \cup {name \in {"store", "category", "amount"} : trim(values[name]) = <<>>}
    \cup {name \in {"amount"} :
              /\ trim(values[name]) # <<>>
              /\ \/ isNaN(StringToNumber(values[name]))
                 \/ StringToNumber(values[name]).v <= 0}

\* how a posted request ends: a response with a status, or a rejection with
\* an Error of some message or with a value that is not an Error
Outcomes ==
    {[kind |-> "response", status |-> 200, message |-> ""],
     [kind |-> "response", status |-> 201, message |-> ""],
     [kind |-> "error", status |-> 0, message |-> "Network Error"],
     [kind |-> "error", status |-> 0, message |-> ""],
     [kind |-> "thrown", status |-> 0, message |-> ""]}

\* the text handed to setServerError in the catch block
errorMessage(outcome) ==
    LET message == CASE outcome.kind = "response" -> "Request failed with status"
                     [] outcome.kind = "error"    -> outcome.message
                     [] outcome.kind = "thrown"   -> "Unknown error"
    IN  IF message = "" THEN "An error occurred while saving the purchase."
        ELSE message

FormInit ==
    /\ IdleView
    /\ probe = [kind |-> "form", values |-> EmptyValues, errors |-> {},
                isSubmitting |-> FALSE, serverError |-> NoMessage,
                successMessage |-> NoMessage, pending |-> 0]
    /\ out = NoOut

FormStep(name) ==
    /\ lastOp' = Op(name)
    /\ UNCHANGED <<data, schemaProps, searchQuery, sortKey, sortDirection, rowsPerPage,
                   currentPage, columnFilters>>

handleChange(name, value) ==
    /\ probe.kind = "form"
    /\ probe' = [probe EXCEPT !.values[name] = value,
                              !.errors = @ \ {name},
                              !.serverError = NoMessage,
                              !.successMessage = NoMessage]
    /\ out' = NoOut
    /\ FormStep("handleChange")

\* handleSubmit up to its await: a validation failure ends it, otherwise the
\* request is posted
handleSubmit ==
    /\ probe.kind = "form"
    /\ submitEnabled(probe)
    /\ probe.pending < MaxPending
    /\ IF validate(probe.values) # {}
       THEN /\ probe' = [probe EXCEPT !.serverError = NoMessage,
                                      !.successMessage = NoMessage,
                                      !.errors = validate(probe.values)]
            /\ out' = [kind |-> "submit", posted |-> FALSE]
       ELSE /\ probe' = [probe EXCEPT !.serverError = NoMessage,
                                      !.successMessage = NoMessage,
                                      !.isSubmitting = TRUE,
                                      !.pending = @ + 1]
            /\ out' = [kind |-> "submit", posted |-> TRUE]
    /\ FormStep("handleSubmit")

\* handleSubmit after its await: the try block on a response of status 200,
\* the catch block otherwise, then the finally block.  The onSuccess callback
\* that App.tsx passes logs the purchase and returns; no onError is passed
requestCompleted(outcome) ==
    /\ probe.kind = "form"
    /\ probe.pending > 0
    /\ IF outcome.kind = "response" /\ outcome.status = 200
       THEN probe' = [probe EXCEPT !.successMessage =
                                       Message("Purchase saved successfully."),
                                   !.values = EmptyValues,
                                   !.errors = {},
                                   !.isSubmitting = FALSE,
                                   !.pending = @ - 1]
       ELSE probe' = [probe EXCEPT !.serverError = Message(errorMessage(outcome)),
                                   !.isSubmitting = FALSE,
                                   !.pending = @ - 1]
    /\ out' = [kind |-> "completed", outcome |-> outcome]
    /\ FormStep("requestCompleted")

FormNext ==
    \/ \E name \in FieldNames : \E value \in FieldTexts(name) : handleChange(name, value)
    \/ handleSubmit
    \/ \E outcome \in Outcomes : requestCompleted(outcome)

FormSpec == FormInit /\ [][FormNext]_vars

-----------------------------------------------------------------------------
(* Properties of the table view                                            *)

\* the concatenation of the page slices 0..n-1 of rows at page size p
RECURSIVE ConcatPages(_, _, _)
ConcatPages(rows, p, n) ==
    IF n = 0 THEN <<>>
    ELSE ConcatPages(rows, p, n - 1) \o pageDataOf(rows, n - 1, p)

\* C1: in every reachable view state the page size is positive, totalPages is
\* the page count of the current filtered and sorted rows, the effective page
\* is min(stored page, totalPages - 1) and lies in [0, totalPages - 1]; 3 rows
\* at page size 10 with stored page 5 give effective page 0, one page, and a
\* page holding all 3 rows.
C1_EffectivePageClamped ==
    LET rows  == totalRows
        pages == totalPagesOf(rows, rowsPerPage)
        page  == safePageOf(currentPage, pages)
    IN  /\ rowsPerPage > 0
        /\ pages >= 1
        /\ (pages - 1) * rowsPerPage < Max(1, rows)
        /\ rows <= pages * rowsPerPage
        /\ 0 <= page
        /\ page <= pages - 1
        /\ page = (IF currentPage <= pages - 1 THEN currentPage ELSE pages - 1)
        /\ Len(Few) = 3
        /\ totalPagesOf(Len(Few), 10) = 1
        /\ safePageOf(5, totalPagesOf(Len(Few), 10)) = 0
        /\ pageDataOf(Few, safePageOf(5, totalPagesOf(Len(Few), 10)), 10) = Few

\* the stored page is stale after the dataset was replaced by a smaller one
C1_StalePageShown ==
    LET pages == totalPages
    IN  /\ lastOp.name = "receiveProps"
        /\ currentPage > pages - 1
        /\ pages >= 2
        /\ safePageOf(currentPage, pages) = pages - 1

\* C2: for the filtered and sorted rows S of every reachable state and every
\* positive page size p, the page slices 0..totalPages-1 concatenated in order
\* are exactly S.
C2_PagesCoverRows ==
    LET S == sortedData
    IN  \A p \in 1..(Len(S) + 1) :
            ConcatPages(S, p, totalPagesOf(Len(S), p)) = S

\* filtered, sorted rows that fill several pages, the last one partly
C2_SeveralPages ==
    /\ sortKey # NoKey
    /\ rowsPerPage < Len(data)
    /\ Len(filteredData) < Len(data)
    /\ totalRows > rowsPerPage
    /\ totalRows % rowsPerPage # 0

\* C5: after a previous-page or next-page operation the stored page lies in
\* [0, totalPages - 1] for the current filtered rows, also when the stored page
\* was stale before the operation.
C5_NavigationStaysInRange ==
    lastOp.name \in {"goToPreviousPage", "goToNextPage"} =>
        /\ 0 <= currentPage
        /\ currentPage <= totalPages - 1

\* C7: after set-search, set-filter, set-sort and set-rows-per-page the stored
\* page is 0, whatever it was before.
C7_ResetToFirstPage ==
    lastOp.name \in {"handleSearchChange", "handleColumnFilterChange",
                     "handleSort", "handleRowsPerPageChange"} =>
        currentPage = 0

\* a column filter was changed while a later page was stored
C7_FilterChangedOnLaterPage ==
    /\ lastOp.name = "handleColumnFilterChange"
    /\ lastOp.moved
    /\ currentPage = 0

\* the other direction
Flip(dir) == IF dir = "asc" THEN "desc" ELSE "asc"

\* what set-sort does to the sort key and direction in one step
SortStepToggles ==
    lastOp'.name = "handleSort" =>
        /\ sortKey' = lastOp'.sort.key
        /\ IF sortKey = lastOp'.sort.key
           THEN sortDirection' = Flip(sortDirection)
           ELSE sortDirection' = "asc"

\* C8 (as amended): set-sort on the column that is the sort key flips the
\* direction and keeps the key; on any other column it makes that column the
\* key with direction asc; two consecutive set-sort operations on a column that
\* was the sort key before the first of them restore the original direction.
C8_SortToggle ==
    [][/\ SortStepToggles
       /\ (lastOp'.name = "handleSort" /\ lastOp'.sort.run = 2 /\ lastOp'.sort.wasKey) =>
              sortDirection' = lastOp'.sort.dir0]_vars

\* two set-sort operations in a row on the sort key brought the direction back
C8_ToggledTwice ==
    /\ lastOp.name = "handleSort"
    /\ lastOp.sort.run = 2
    /\ lastOp.sort.wasKey
    /\ lastOp.sort.dir0 = "desc"
    /\ sortDirection = "desc"

\* C8 (as claimed): as above, but two consecutive set-sort operations on the
\* same column restore the original direction whatever the sort key was before.
C8_SortToggleAnyColumn ==
    [][/\ SortStepToggles
       /\ (lastOp'.name = "handleSort" /\ lastOp'.sort.run = 2) =>
              sortDirection' = lastOp'.sort.dir0]_vars

\* the filters without field f of the entry stored under key k
WithoutField(filters, k, f) ==
    [x \in DOMAIN filters |->
        IF x = k THEN [g \in DOMAIN filters[k] \ {f} |-> filters[k][g]] ELSE filters[x]]

\* a bound that does not parse for the column's type
Unparsable(type, bound) ==
    IF IsNumericType(type) THEN isNaN(StringToNumber(bound))
    ELSE IF IsDateType(type) THEN DateParse(bound).nan
    ELSE FALSE

\* C3: for a range-mode column a stored min or max that does not parse for the
\* column's type is ignored: the rows passing the filter are the rows passing
\* with that bound absent, rows with an absent or unparsable cell included.
C3_UnparsableBoundIgnored ==
    \A i \in DOMAIN columns :
        LET col  == columns[i]
            type == columnTypeByKey[col.key]
        IN  (getFilterMode(col) = "range" /\ col.key \in DOMAIN columnFilters) =>
                \A f \in {"min", "max"} \cap DOMAIN columnFilters[col.key] :
                    Unparsable(type, columnFilters[col.key][f]) =>
                        filteredData = filterRows(data, columns, columnTypeByKey, searchQuery,
                                                  WithoutField(columnFilters, col.key, f))

\* C6: a column whose filter mode is none never excludes a row: whatever entry
\* is stored under its key, its per-column clause passes for every record.
C6_NoneModeNeverExcludes ==
    \A i \in DOMAIN columns :
        getFilterMode(columns[i]) = "none" =>
            \A r \in DOMAIN data :
                columnClause(data[r], columns[i], columnTypeByKey[columns[i].key], columnFilters)

\* sub is rows with some elements left out, the order kept
RECURSIVE IsSubSequence(_, _, _, _)
IsSubSequence(sub, rows, i, j) ==
    IF i > Len(sub) THEN TRUE
    ELSE IF j > Len(rows) THEN FALSE
    ELSE IF sub[i] = rows[j] THEN IsSubSequence(sub, rows, i + 1, j + 1)
    ELSE IsSubSequence(sub, rows, i, j + 1)

\* the values a new entry may hold in field f
AddedValues(f) ==
    IF f = "text" THEN TextInputs \ {<<>>} ELSE NumericBoundInputs \cup DateBoundInputs

\* C9: adding a filter condition never enlarges the result: with a non-empty
\* global query added where there was none, or a text, min or max entry added
\* to any column where that field was not set, the filtered rows are a
\* sub-sequence of the filtered rows before.
C9_AddingFilterShrinks ==
    LET before == filteredData
    IN  /\ searchQuery = <<>> =>
               \A q \in SearchInputs \ {<<>>} :
                   IsSubSequence(filterRows(data, columns, columnTypeByKey, q, columnFilters),
                                 before, 1, 1)
        /\ \A i \in DOMAIN columns : \A f \in {"text", "min", "max"} :
               LET k == columns[i].key
               IN  (k \notin DOMAIN columnFilters \/ ~Truthy(columnFilters[k], f)) =>
                       \A v \in AddedValues(f) :
                           IsSubSequence(
                               filterRows(data, columns, columnTypeByKey, searchQuery,
                                          mergeFilter(columnFilters, k, [g \in {f} |-> v])),
                               before, 1, 1)

\* a filter is already set, and adding the global query would remove more rows
C9_SecondConditionRemovesRows ==
    /\ searchQuery = <<>>
    /\ hasAnyColumnFilterOf(columnFilters)
    /\ filteredData # <<>>
    /\ \E q \in SearchInputs \ {<<>>} :
           Len(filterRows(data, columns, columnTypeByKey, q, columnFilters)) < Len(filteredData)

\* s holds q at some position
ContainsText(s, q) ==
    \E p \in 0..(Len(s) - Len(q)) : \A j \in 1..Len(q) : s[p + j] = q[j]

\* some column of cols that is not hidden (all columns when hidden is TRUE)
\* has a present cell of row whose lower-cased string form holds lower-cased q
CellHit(row, cols, q, hidden) ==
    \E i \in DOMAIN cols :
        /\ hidden \/ cols[i].visible # FALSE
        /\ cols[i].key \in DOMAIN row
        /\ row[cols[i].key].t \notin {"null", "undefined"}
        /\ ContainsText(toLowerCase(String(row[cols[i].key])), toLowerCase(q))

\* C10: with a non-empty global query q a record passes the global clause iff
\* some column with visible != false has a present cell whose lower-cased
\* string form contains lower-cased q; the filtered rows all pass it, and with
\* no column filter active they are exactly the records that pass it.
C10_GlobalClause ==
    searchQuery # <<>> =>
        LET Hit(row) == CellHit(row, columns, searchQuery, FALSE)
        IN  /\ \A r \in DOMAIN data :
                   matchesGlobal(data[r], columns, searchQuery) <=> Hit(data[r])
            /\ \A r \in DOMAIN filteredData : Hit(filteredData[r])
            /\ ~hasAnyColumnFilterOf(columnFilters) => filteredData = SelectSeq(data, Hit)

\* the query matches one record only in a hidden column and another only
\* through the text of an absent cell; both are filtered out, other records stay
C10_HiddenAndAbsentOnly ==
    /\ searchQuery # <<>>
    /\ ~hasAnyColumnFilterOf(columnFilters)
    /\ filteredData # <<>>
    /\ \E r \in DOMAIN data :
           /\ CellHit(data[r], columns, searchQuery, TRUE)
           /\ ~CellHit(data[r], columns, searchQuery, FALSE)
           /\ \A x \in DOMAIN filteredData : filteredData[x] # data[r]
    /\ \E r \in DOMAIN data :
           /\ \E i \in DOMAIN columns :
                  /\ columns[i].visible # FALSE
                  /\ IsAbsent(Cell(data[r], columns[i].key))
                  /\ ContainsText(toLowerCase(String(Cell(data[r], columns[i].key))),
                                  toLowerCase(searchQuery))
           /\ ~CellHit(data[r], columns, searchQuery, TRUE)
           /\ \A x \in DOMAIN filteredData : filteredData[x] # data[r]

\* C4: the sort comparator is a total order on cell values: cmp(a,b) and
\* cmp(b,a) have opposite signs, cmp(a,b) <= 0 and cmp(b,c) <= 0 imply
\* cmp(a,c) <= 0, and two present values are compared as numbers exactly when
\* both parse as numbers and as strings otherwise.
C4_ComparatorTotalOrder ==
    out.kind = "compare" =>
        /\ Sign(out.ab) = 0 - Sign(out.ba)
        /\ (out.ab <= 0 /\ out.bc <= 0) => out.ac <= 0
        /\ (~IsAbsent(probe.a) /\ ~IsAbsent(probe.b)) =>
               LET na  == Number(probe.a)
                   nb  == Number(probe.b)
                   asc == IF ~isNaN(na) /\ ~isNaN(nb) THEN Sign(na.v - nb.v)
                          ELSE Sign(localeCompare(String(probe.a), String(probe.b)))
               IN  Sign(out.ab) = (IF sortDirection = "asc" THEN asc ELSE 0 - asc)

\* the value of an entry's field, <<>> when the field is not set
FieldOf(entry, f) == IF f \in DOMAIN entry THEN entry[f] ELSE <<>>

\* the text clause as the contract states it: the cell is present and its
\* lower-cased string form holds the lower-cased text
TextHolds(cell, text) ==
    /\ cell.t \notin {"null", "undefined"}
    /\ ContainsText(toLowerCase(String(cell)), toLowerCase(text))

\* the order of a cell and a bound that both parse for the type: -1, 0 or 1
BoundOrder(type, cell, bound) ==
    IF IsNumericType(type) THEN Sign(Number(cell).v - StringToNumber(bound).v)
    ELSE LET d == NewDate(cell)
             b == DateParse(bound)
         IN  IF DateLess(d, b) THEN -1 ELSE IF DateLess(b, d) THEN 1 ELSE 0

\* the cell parses for the type
CellParses(type, cell) ==
    /\ cell.t \notin {"null", "undefined"}
    /\ IF IsNumericType(type) THEN ~isNaN(Number(cell)) ELSE ~NewDate(cell).nan

\* a bound that is set and parses for the type
Parsable(type, bound) == bound # <<>> /\ ~Unparsable(type, bound)

\* the range clause as the contract states it
RangeHolds(type, cell, entry) ==
    /\ CellParses(type, cell)
    /\ Parsable(type, FieldOf(entry, "min")) => BoundOrder(type, cell, entry.min) >= 0
    /\ Parsable(type, FieldOf(entry, "max")) => BoundOrder(type, cell, entry.max) <= 0

\* the entry stored under key k has a non-empty field
HasEntry(filters, k) ==
    /\ k \in DOMAIN filters
    /\ \E f \in {"text", "min", "max"} : FieldOf(filters[k], f) # <<>>

C12_RangeInclusive ==
    /\ (/\ out.kind = "range"
        /\ \E f \in {"min", "max"} : Parsable(probe.type, FieldOf(probe.entry, f))) =>
           (out.pass <=> RangeHolds(probe.type, probe.cell, probe.entry))
    /\ LET min20 == [f \in {"min"} |-> <<"2", "0">>]
       IN  /\ ~passesNumericRangeFilter(Num(12 * Scale + 5000), min20)
           /\ passesNumericRangeFilter(Num(44 * Scale + 9900), min20)

\* a cell equal to the min bound passed, with a max bound set as well
C12_CellOnBoundPasses ==
    /\ out.kind = "range"
    /\ out.pass
    /\ DOMAIN probe.entry = {"min", "max"}
    /\ Parsable(probe.type, probe.entry.min)
    /\ Parsable(probe.type, probe.entry.max)
    /\ BoundOrder(probe.type, probe.cell, probe.entry.min) = 0
    /\ BoundOrder(probe.type, probe.cell, probe.entry.max) < 0

\* the sort is applied: a sort key is set and its column is not declared unsortable
SortApplies ==
    /\ sortKey # NoKey
    /\ ~\E i \in DOMAIN columns : columns[i].key = sortKey /\ columns[i].sortable = FALSE

\* C13: when a sort is applied, the records whose sort-key value is absent
\* come after every record with a present value, in both directions, and
\* stay in their input order: the direction reorders the present values only.
C13_AbsentSortLast ==
    SortApplies =>
        LET sorted == sortedData
            AbsentKey(row) == IsAbsent(Cell(row, sortKey))
        IN  /\ \A i, j \in DOMAIN sorted :
                   (i < j /\ AbsentKey(sorted[i])) => AbsentKey(sorted[j])
            /\ SelectSeq(sorted, AbsentKey) = SelectSeq(filteredData, AbsentKey)

\* a descending sort over records with and without a value for the sort key
C13_DescendingWithAbsent ==
    /\ SortApplies
    /\ sortDirection = "desc"
    /\ LET sorted == sortedData
       IN  /\ Len(sorted) >= 3
           /\ ~IsAbsent(Cell(sorted[1], sortKey))
           /\ IsAbsent(Cell(sorted[Len(sorted)], sortKey))
           /\ \E i \in DOMAIN filteredData :
                  /\ i < Len(filteredData)
                  /\ IsAbsent(Cell(filteredData[i], sortKey))

\* C14: with no sort key, or with a sort key whose schema column has
\* sortable:false, the sorted output equals the filtered input in content and
\* order, whatever the direction.
C14_NoSortKeepsInput ==
    (sortKey = NoKey
       \/ \E i \in DOMAIN columns : columns[i].key = sortKey /\ columns[i].sortable = FALSE)
        => sortedData = filteredData

\* the stored sort key names a column the schema now declares unsortable, and
\* sorting the filtered input by it would reorder it
C14_UnsortableKeyStored ==
    /\ sortKey # NoKey
    /\ sortDirection = "desc"
    /\ \E i \in DOMAIN columns : columns[i].key = sortKey /\ columns[i].sortable = FALSE
    /\ StableSort(filteredData, sortKey, sortDirection) # filteredData

\* C15: no stage of the pipeline writes into the caller's dataset: once the
\* render has run the input array holds the same records in the same order,
\* each with the same field values.
C15_InputNotMutated == dataAfterRender = data

\* a sort ran over the caller's own array (no filter is active) and the
\* sorted order differs from the input order
C15_SortedUnfilteredInput ==
    /\ sortCalledOf(columns, sortKey)
    /\ filteredArrayOf(searchQuery, columnFilters) = "data"
    /\ sortedData # data
    /\ lastOp.name = "handleSort"

\* A reader of the exported text: a double quote opens or closes a quoted
\* stretch, a comma outside quotes ends a field, a line break outside quotes
\* ends a record.  The fields are kept as written, quotes included.
Separators(text) ==
    {i \in DOMAIN text :
        /\ text[i] = "," \/ text[i] = "\n"
        /\ Cardinality({j \in 1..i : text[j] = "\""}) % 2 = 0}

RECURSIVE Ascending(_)
Ascending(S) ==
    IF S = {} THEN <<>>
    ELSE LET m == CHOOSE x \in S : \A y \in S : x <= y
         IN  <<m>> \o Ascending(S \ {m})

RECURSIVE CsvSplit(_, _, _, _, _, _)
CsvSplit(text, seps, k, start, record, records) ==
    IF k > Len(seps)
    THEN (IF start > Len(text) /\ record = <<>> THEN records
          ELSE Append(records, Append(record, SubSeq(text, start, Len(text)))))
    ELSE LET field == SubSeq(text, start, seps[k] - 1)
         IN  IF text[seps[k]] = ","
             THEN CsvSplit(text, seps, k + 1, seps[k] + 1, Append(record, field), records)
             ELSE CsvSplit(text, seps, k + 1, seps[k] + 1, <<>>,
                           Append(records, Append(record, field)))

CsvRecords(text) == CsvSplit(text, Ascending(Separators(text)), 1, 1, <<>>, <<>>)

\* a pair of double quotes read back as one
RECURSIVE Undoubled(_)
Undoubled(s) ==
    IF s = <<>> THEN <<>>
    ELSE IF Len(s) >= 2 /\ s[1] = "\"" /\ s[2] = "\""
         THEN <<"\"">> \o Undoubled(SubSeq(s, 3, Len(s)))
    ELSE <<s[1]>> \o Undoubled(Tail(s))

\* the content of a field as written
FieldContent(raw) ==
    IF Len(raw) >= 2 /\ raw[1] = "\"" /\ raw[Len(raw)] = "\""
    THEN Undoubled(SubSeq(raw, 2, Len(raw) - 1))
    ELSE raw

\* the one format function on a cell of a record, with the resolved type of the column
Formatted(row, key) ==
    formatValueWithType(Cell(row, key), columnTypeByKey[key], locale, currency, percentDigits)

\* C16: for every present cell of the current page in a visible column the
\* text on screen is the format function's result for (value, resolved type,
\* locale, currency, percentDigits), and so is the text the export formats for
\* that record and column and the content of its field in the exported file.
C16_ScreenEqualsCsv ==
    LET cols  == columns
        vis   == visibleColumnsOf(cols)
        page  == pageData
        cells == tableCells
        first == safePage * rowsPerPage
    IN  \A r \in DOMAIN page : \A v \in DOMAIN vis :
            ~IsAbsent(Cell(page[r], vis[v].key)) =>
                /\ cells[r][v] = Text(Formatted(page[r], vis[v].key))
                /\ cells[r][v].s = csvFormatted(page[r], vis[v], columnTypeByKey)
                /\ out.kind = "csv" =>
                       FieldContent(CsvRecords(out.text)[1 + first + r][v]) = cells[r][v].s

\* an export ran while a later page was shown, and a cell of that page shows a
\* text that differs from the plain string form of its value
C16_FormattedCellExported ==
    /\ out.kind = "csv"
    /\ safePage > 0
    /\ \E r \in DOMAIN pageData : \E v \in DOMAIN visibleColumnsOf(columns) :
           LET value == Cell(pageData[r], visibleColumnsOf(columns)[v].key)
           IN  /\ ~IsAbsent(value)
               /\ tableCells[r][v] # Text(String(value))

\* C17: the export holds the header and then one record for every row of the
\* filtered and sorted sequence, in that order, each with one field per
\* visible column in schema order; hidden columns give neither a header field
\* nor a data field; the page and the page size play no part.
C17_CsvCoversSortedRows ==
    out.kind = "csv" =>
        LET vis    == visibleColumnsOf(columns)
            sorted == sortedData
            recs   == CsvRecords(out.text)
        IN  /\ Len(recs) = 1 + Len(sorted)
            /\ recs[1] = [v \in DOMAIN vis |-> vis[v].label]
            /\ \A r \in DOMAIN sorted :
                   /\ Len(recs[1 + r]) = Len(vis)
                   /\ \A v \in DOMAIN vis :
                          FieldContent(recs[1 + r][v]) =
                              IF IsAbsent(Cell(sorted[r], vis[v].key)) THEN <<>>
                              ELSE Formatted(sorted[r], vis[v].key)

\* an export of a searched and sorted view with a hidden column, taken on a
\* later page of several
C17_ExportFromLaterPage ==
    /\ out.kind = "csv"
    /\ safePage > 0
    /\ Len(sortedData) > Len(pageData)
    /\ sortKey # NoKey /\ sortedData # filteredData
    /\ searchQuery # <<>> /\ filteredData # data
    /\ \E i \in DOMAIN columns : columns[i].visible = FALSE

\* the text contains a comma, a double quote or a line break
HasSpecial(s) == \E i \in DOMAIN s : s[i] = "," \/ s[i] = "\"" \/ s[i] = "\n"

\* C18: in the data rows of the export a field is its formatted text wrapped
\* in double quotes, with every inner double quote doubled, iff that text
\* holds a comma, a double quote or a line break; any other text is written
\* as it is, and an absent value gives an empty field.
C18_QuotedIffSpecial ==
    out.kind = "csv" =>
        LET vis    == visibleColumnsOf(columns)
            sorted == sortedData
            recs   == CsvRecords(out.text)
        IN  \A r \in DOMAIN sorted : \A v \in DOMAIN vis :
                LET raw  == recs[1 + r][v]
                    text == Formatted(sorted[r], vis[v].key)
                IN  /\ Len(recs) = 1 + Len(sorted)
                    /\ Len(recs[1 + r]) = Len(vis)
                    /\ IF IsAbsent(Cell(sorted[r], vis[v].key)) THEN raw = <<>>
                       ELSE IF HasSpecial(text)
                            THEN /\ raw[1] = "\"" /\ raw[Len(raw)] = "\""
                                 /\ Len(raw) = Len(text) + 2
                                        + Cardinality({i \in DOMAIN text : text[i] = "\""})
                                 /\ Undoubled(SubSeq(raw, 2, Len(raw) - 1)) = text
                       ELSE raw = text

\* an export with a field quoted for its double quote, one for its line
\* break, one for its comma, one written as it is and one empty
C18_EveryKindOfField ==
    /\ out.kind = "csv"
    /\ \E q \in {"\"", "\n", ","} : \E r \in DOMAIN sortedData :
           \E v \in DOMAIN visibleColumnsOf(columns) :
               LET key == visibleColumnsOf(columns)[v].key
               IN  /\ ~IsAbsent(Cell(sortedData[r], key))
                   /\ \E i \in DOMAIN Formatted(sortedData[r], key) :
                          Formatted(sortedData[r], key)[i] = q
    /\ \A q \in {"\"", "\n", ","} : \E i \in DOMAIN out.text : out.text[i] = q
    /\ \E r \in DOMAIN sortedData : \E v \in DOMAIN visibleColumnsOf(columns) :
           IsAbsent(Cell(sortedData[r], visibleColumnsOf(columns)[v].key))
    /\ \E r \in DOMAIN sortedData : \E v \in DOMAIN visibleColumnsOf(columns) :
           LET key == visibleColumnsOf(columns)[v].key
           IN  /\ ~IsAbsent(Cell(sortedData[r], key))
               /\ ~HasSpecial(Formatted(sortedData[r], key))

\* the schema column with the key as the parent passed it, or an empty record
GivenColumn(key) ==
    LET given == schemaProps.columns
    IN  IF \E i \in DOMAIN given : given[i].key = key
        THEN given[CHOOSE i \in DOMAIN given : given[i].key = key]
        ELSE [k \in {} |-> Absent]

\* the type inferred for the key from the dataset
InferredType(key) ==
    inferColumnType(KeyText(key), [r \in DOMAIN data |-> Cell(data[r], key)])

\* C19: the resolved type of a column is the type its schema column states,
\* else the entry of the override map for its key, else the inferred type; a
\* schema type wins over an override-map entry for the same key.
C19_TypePrecedence ==
    \A i \in DOMAIN columns :
        LET key   == columns[i].key
            given == GivenColumn(key)
            maps  == schemaProps.columnTypes
        IN  columnTypeByKey[key] =
                IF "type" \in DOMAIN given THEN given.type
                ELSE IF key \in DOMAIN maps THEN maps[key]
                ELSE InferredType(key)

\* one column has a schema type and a different override, another has only an
\* override that differs from its inferred type, a third has neither
C19_AllThreeSources ==
    /\ data # <<>>
    /\ lastOp.name = "receiveProps"
    /\ \E i \in DOMAIN columns :
           LET key == columns[i].key
           IN  /\ "type" \in DOMAIN GivenColumn(key)
               /\ key \in DOMAIN schemaProps.columnTypes
               /\ schemaProps.columnTypes[key] # GivenColumn(key).type
               /\ columnTypeByKey[key] = GivenColumn(key).type
    /\ \E i \in DOMAIN columns :
           LET key == columns[i].key
           IN  /\ "type" \notin DOMAIN GivenColumn(key)
               /\ key \in DOMAIN schemaProps.columnTypes
               /\ schemaProps.columnTypes[key] # InferredType(key)
               /\ columnTypeByKey[key] = schemaProps.columnTypes[key]
    /\ \E i \in DOMAIN columns :
           LET key == columns[i].key
           IN  /\ "type" \notin DOMAIN GivenColumn(key)
               /\ key \notin DOMAIN schemaProps.columnTypes
               /\ columnTypeByKey[key] = InferredType(key)

\* the lower-cased key holds one of the words
HasWord(key, words) == \E w \in words : ContainsText(toLowerCase(key), w)

PercentWords ==
    {<<"p", "e", "r", "c", "e", "n", "t">>, <<"p", "c", "t">>, <<"r", "a", "t", "e">>,
     <<"r", "a", "t", "i", "o">>}

CurrencyWords ==
    {<<"p", "r", "i", "c", "e">>, <<"a", "m", "o", "u", "n", "t">>, <<"c", "o", "s", "t">>,
     <<"r", "e", "v", "e", "n", "u", "e">>, <<"r", "e", "v">>}

\* the places of the sampled values: the first SampleSize present values
SampledAt(values) ==
    {i \in DOMAIN values :
        /\ ~IsAbsent(values[i])
        /\ Cardinality({j \in 1..i : ~IsAbsent(values[j])}) <= SampleSize}

\* the numbers of the sampled values of a column, in 1/Scale units
PresentNumbers(values) == {Number(values[i]).v : i \in SampledAt(values)}

\* every sampled value is a number or a boolean, and not all are booleans:
\* the sample is numeric-parsable and neither the boolean nor the date rule fires
NumericSample(values) ==
    /\ \E i \in SampledAt(values) : values[i].t = "number"
    /\ \A i \in SampledAt(values) : values[i].t \in {"number", "boolean"}

\* C20: on a numeric-parsable sample inference gives percent if the
\* lower-cased key holds percent, pct, rate or ratio or every number lies in
\* [0, 1]; else currency if the key holds price, amount, cost, revenue or rev;
\* else integer if every number is integral; else number.  conversion_rate
\* with [0.0834, 0.125, 0.14] is percent, price with [12.5, 44.99] is
\* currency, a key with a percent and a currency word is percent.
C20_NumericInferenceOrder ==
    /\ (out.kind = "infer" /\ NumericSample(probe.values)) =>
           out.type =
               IF \/ HasWord(probe.key, PercentWords)
                  \/ \A n \in PresentNumbers(probe.values) : 0 <= n /\ n <= Scale
               THEN "percent"
               ELSE IF HasWord(probe.key, CurrencyWords) THEN "currency"
               ELSE IF \A n \in PresentNumbers(probe.values) : n % Scale = 0 THEN "integer"
               ELSE "number"
    /\ inferColumnType(<<"c", "o", "n", "v", "e", "r", "s", "i", "o", "n", "_", "r", "a", "t", "e">>,
                       <<Num(834), Num(1250), Num(1400)>>) = "percent"
    /\ inferColumnType(<<"p", "r", "i", "c", "e">>,
                       <<Num(12 * Scale + 5000), Num(44 * Scale + 9900)>>) = "currency"

\* a key with a percent word and a currency word, over numbers beyond 1 that
\* are not all integral, was inferred
C20_BothWordsInferred ==
    /\ out.kind = "infer"
    /\ NumericSample(probe.values)
    /\ HasWord(probe.key, PercentWords)
    /\ HasWord(probe.key, CurrencyWords)
    /\ \E n \in PresentNumbers(probe.values) : n > Scale
    /\ \E n \in PresentNumbers(probe.values) : n % Scale # 0
    /\ out.type = "percent"

\* the sampled values of a column
PresentValues(values) == {values[i] : i \in SampledAt(values)}

\* the text of the string-typed sampled values
PresentStrings(values) == {v.s : v \in {w \in PresentValues(values) : w.t = "string"}}

\* the text holds the character
HoldsChar(text, c) == \E i \in DOMAIN text : text[i] = c

\* C21: the rules are tried in the order boolean, date or datetime, numeric,
\* string.  The date rule looks at the string-typed sampled values only: when
\* there is at least one and each of them parses as a date the type is date,
\* or datetime when one of them holds ":" or "T", whatever numbers and
\* booleans the sample holds besides.
C21_InferenceOrder ==
    out.kind = "infer" =>
        LET present == PresentValues(probe.values)
            strings == PresentStrings(probe.values)
        IN  IF present = {} THEN out.type = "string"
            ELSE IF \A v \in present : v.t = "boolean" THEN out.type = "boolean"
            ELSE IF strings # {} /\ \A t \in strings : ~DateParse(t).nan
                 THEN out.type =
                          IF \E t \in strings : HoldsChar(t, ":") \/ HoldsChar(t, "T")
                          THEN "datetime" ELSE "date"
            ELSE IF \A v \in present : ~isNaN(Number(v))
                 THEN out.type \in {"percent", "currency", "integer", "number"}
            ELSE out.type = "string"

\* a column of dates mixed with a number and a boolean was inferred as a
\* datetime column
C21_DatesAmongNumbers ==
    /\ out.kind = "infer"
    /\ \E v \in PresentValues(probe.values) : v.t = "number"
    /\ \E v \in PresentValues(probe.values) : v.t = "boolean"
    /\ PresentStrings(probe.values) # {}
    /\ out.type = "datetime"

\* the two columns have the same sampled values, each as many times
SameSample(a, b) ==
    \A v \in PresentValues(a) \cup PresentValues(b) :
        Cardinality({i \in SampledAt(a) : a[i] = v}) = Cardinality({i \in SampledAt(b) : b[i] = v})

\* C22: the inferred type depends on the key and on the first 20 present
\* values as a multiset only: a second call gives the same type, and so does
\* every column with the same sampled values in another order, with other
\* values behind the 20th present one or with absent values at other places;
\* a column without a present value is a string column.
C22_SampleDecides ==
    out.kind = "infer" =>
        /\ inferColumnType(probe.key, probe.values) = out.type
        /\ \A other \in InferColumns :
               SameSample(probe.values, other) => inferColumnType(probe.key, other) = out.type
        /\ PresentValues(probe.values) = {} => out.type = "string"

\* the sampled values in the order of the column
SampleOrder(values) == SelectSeq(values, LAMBDA v : ~IsAbsent(v))

\* a column of more than 20 present values was inferred; one other column
\* has the same sample in another order, one has absent values among it, and
\* one has a text behind it that would change the type
C22_LongColumnInferred ==
    /\ out.kind = "infer"
    /\ Len(SampleOrder(probe.values)) > SampleSize
    /\ Cardinality(PresentValues(probe.values)) > 1
    /\ out.type \notin {"string", "boolean"}
    /\ \E other \in InferColumns :
           /\ SameSample(probe.values, other)
           /\ SubSeq(SampleOrder(other), 1, SampleSize)
                  # SubSeq(SampleOrder(probe.values), 1, SampleSize)
    /\ \E other \in InferColumns :
           /\ SameSample(probe.values, other)
           /\ \E i \in 1..SampleSize : IsAbsent(other[i])
    /\ \E other \in InferColumns :
           /\ SameSample(probe.values, other)
           /\ \E i \in DOMAIN other \ SampledAt(other) :
                  other[i].t = "string" /\ DateParse(other[i].s).nan

\* C23: a shown column with an align of its own has that alignment; without
\* one it is right-aligned when its resolved type (the schema type, else the
\* override, else the inferred type) is number, integer, currency or percent,
\* and left-aligned otherwise.
C23_AlignFollowsResolvedType ==
    \A i \in DOMAIN columns :
        columns[i].visible # FALSE =>
            getAlignClass(columns[i]) =
                IF columns[i].align # Absent THEN columns[i].align
                ELSE IF IsNumericType(columnTypeByKey[columns[i].key]) THEN "right"
                ELSE "left"

\* the first line of the csv for the shown columns: their labels and a line break
HeaderLine == join([v \in DOMAIN visibleColumnsOf(columns) |-> visibleColumnsOf(columns)[v].label],
                   <<",">>) \o <<"\n">>

\* C24: with an empty dataset, whatever the search, the sort, the page size
\* and the stored page are, the view has no rows, one page and shows page 0;
\* an export gives the header line alone when some column is shown and
\* nothing at all when no column is shown.
C24_EmptyDataset ==
    data = <<>> =>
        /\ filteredData = <<>>
        /\ sortedData = <<>>
        /\ pageData = <<>>
        /\ rowsMatrix = <<>>
        /\ totalRows = 0
        /\ totalPages = 1
        /\ safePage = 0
        /\ lastOp.name = "exportToCsv" =>
               IF \E i \in DOMAIN columns : columns[i].visible # FALSE
               THEN out = [kind |-> "csv", text |-> HeaderLine]
               ELSE out = NoOut

\* the dataset became empty while a later page, a search and a sort were
\* stored, and the export gave the header line
C24_EmptiedOnLaterPage ==
    /\ data = <<>>
    /\ currentPage > 0
    /\ sortKey # NoKey
    /\ lastOp.name = "exportToCsv"
    /\ out.kind = "csv"
    /\ Len(visibleColumnsOf(columns)) > 1

\* the value does not fit the type: no number under a numeric type, no date
\* under a date type
Misfit(value, type) ==
    /\ ~IsAbsent(value)
    /\ \/ IsNumericType(type) /\ isNaN(Number(value))
       \/ IsDateType(type) /\ NewDate(value).nan

\* C25: a present value that does not parse as a number under integer,
\* number, currency or percent, or as a date under date or datetime, is
\* formatted as its plain string form, the text it has under the type string;
\* an absent value is formatted as the empty text under every type.
C25_FormatFallsBack ==
    out.kind = "format" =>
        /\ IsAbsent(probe.value) => out.text = <<>>
        /\ Misfit(probe.value, probe.type) =>
               /\ out.text = String(probe.value)
               /\ out.text = formatValueWithType(probe.value, "string", locale, currency,
                                                 percentDigits)

\* a text that is no date was formatted under a date type
C25_MisfitFormatted ==
    /\ out.kind = "format"
    /\ probe.type = "datetime"
    /\ Misfit(probe.value, probe.type)
    /\ probe.value.t = "string"
    /\ out.text # <<>>

\* the records with null written for every schema key they lack
Filled(rows) ==
    [r \in DOMAIN rows |->
        [k \in DOMAIN rows[r] \cup {columns[i].key : i \in DOMAIN columns} |->
            IF k \in DOMAIN rows[r] THEN rows[r][k] ELSE Null]]

\* the places of the record in the rows
PlacesOf(row, rows) == {i \in DOMAIN rows : rows[i] = row}

\* the column's clause is active: a text in text mode, or a bound in range
\* mode on a numeric or date column
ClauseActive(col) ==
    /\ col.key \in DOMAIN columnFilters
    /\ IF isRangeOf(col, columnTypeByKey[col.key])
       THEN /\ FieldOf(columnFilters[col.key], "min") # <<>>
               \/ FieldOf(columnFilters[col.key], "max") # <<>>
            /\ IsNumericType(columnTypeByKey[col.key]) \/ IsDateType(columnTypeByKey[col.key])
       ELSE trim(FieldOf(columnFilters[col.key], "text")) # <<>>

\* C26: a record without a key of the schema goes through every stage as the
\* record with null under that key does: the types, the filtered rows, the
\* sorted rows and the exported file are the same.  Such a record is not
\* matched by the search through that column, fails every active text or
\* range clause on it, comes after every record with a value when the rows
\* are sorted by it, and has an empty field for it in the export.
C26_MissingKeyActsAsNull ==
    /\ columnTypeByKeyOf(columns, Filled(data), schemaProps.columnTypes) = columnTypeByKey
    /\ filterRows(Filled(data), columns, columnTypeByKey, searchQuery, columnFilters)
           = Filled(filteredData)
    /\ sortRows(Filled(filteredData), columns, sortKey, sortDirection) = Filled(sortedData)
    /\ out.kind = "csv" =>
           out.text = csvOf(visibleColumnsOf(columns), Filled(sortedData), columnTypeByKey)
    /\ \A r \in DOMAIN data : \A i \in DOMAIN columns :
           LET row == data[r]
               col == columns[i]
           IN  col.key \notin DOMAIN row =>
                   /\ (searchQuery # <<>> /\ PlacesOf(row, filteredData) # {}) =>
                          \E j \in DOMAIN columns :
                              /\ j # i /\ columns[j].visible # FALSE
                              /\ TextHolds(Cell(row, columns[j].key), searchQuery)
                   /\ ClauseActive(col) => PlacesOf(row, filteredData) = {}
                   /\ (SortApplies /\ sortKey = col.key) =>
                          \A p \in PlacesOf(row, sortedData) : \A q \in DOMAIN sortedData :
                              ~IsAbsent(Cell(sortedData[q], col.key)) => q < p
                   /\ (out.kind = "csv" /\ col.visible # FALSE) =>
                          \A p \in PlacesOf(row, sortedData) :
                              \E v \in DOMAIN visibleColumnsOf(columns) :
                                  /\ visibleColumnsOf(columns)[v].key = col.key
                                  /\ CsvRecords(out.text)[1 + p][v] = <<>>

\* the rows are sorted in descending order by a column that one record
\* lacks and another has null for, both are among the rows, and the export ran
C26_MissingKeySortedAndExported ==
    /\ out.kind = "csv"
    /\ SortApplies /\ sortDirection = "desc"
    /\ \E p, q \in DOMAIN sortedData :
           /\ sortKey \notin DOMAIN sortedData[p]
           /\ sortKey \in DOMAIN sortedData[q] /\ sortedData[q][sortKey] = Null
    /\ \E q \in DOMAIN sortedData : ~IsAbsent(Cell(sortedData[q], sortKey))
    /\ sortedData # filteredData

\* C27: with an empty search text and no stored filter field that is not
\* empty, the filtered rows are the rows of the dataset in their order; so a
\* filter field that was set and is the empty text again gives the
\* unfiltered rows back.
C27_NoFilterIsIdentity ==
    (/\ searchQuery = <<>>
     /\ \A k \in DOMAIN columnFilters : \A f \in DOMAIN columnFilters[k] :
            columnFilters[k][f] = <<>>)
        => filteredData = data

\* a filter text was emptied: its entry is stored with the empty text, over
\* a dataset with a record that has no value in that column
C27_FilterCleared ==
    /\ lastOp.name = "handleColumnFilterChange"
    /\ searchQuery = <<>>
    /\ \E k \in DOMAIN columnFilters :
           /\ FieldOf(columnFilters[k], "text") = <<>> /\ "text" \in DOMAIN columnFilters[k]
           /\ \E r \in DOMAIN data : IsAbsent(Cell(data[r], k))
    /\ filteredData = data

\* the stored filter fields as (column, field) pairs
FieldsOf(filters) ==
    {kf \in (DOMAIN filters) \X {"text", "min", "max"} : kf[2] \in DOMAIN filters[kf[1]]}

\* C28: the page buttons change the stored page only: the search text, every
\* filter entry, the sort key, the sort direction and the page size stay as
\* they are.  A filter edit of one field of one column keeps the other fields
\* of that column and the entries of all other columns.
C28_FrameOfPagingAndMerge ==
    [][/\ lastOp'.name \in {"goToPreviousPage", "goToNextPage"} =>
              UNCHANGED <<searchQuery, columnFilters, sortKey, sortDirection, rowsPerPage,
                          data, schemaProps>>
       /\ lastOp'.name = "handleColumnFilterChange" =>
              \E edited \in {columns[i].key : i \in DOMAIN columns} \X {"text", "min", "max"} :
                  /\ \A kf \in FieldsOf(columnFilters) \ {edited} :
                         /\ kf \in FieldsOf(columnFilters')
                         /\ columnFilters'[kf[1]][kf[2]] = columnFilters[kf[1]][kf[2]]
                  /\ FieldsOf(columnFilters') \ {edited} \subseteq FieldsOf(columnFilters)
                  /\ DOMAIN columnFilters \subseteq DOMAIN columnFilters'
      ]_vars

\* a page button was pressed on a filtered view whose filters were edited
\* before: two columns have entries, one of them with two fields
C28_PagedAfterFilterEdit ==
    /\ lastOp.name = "goToNextPage"
    /\ currentPage > 0
    /\ columnFilters \notin StoredFilters
    /\ Cardinality(DOMAIN columnFilters) > 1
    /\ \E k \in DOMAIN columnFilters : Cardinality(DOMAIN columnFilters[k]) > 1
    /\ searchQuery # <<>>
    /\ sortKey # NoKey

\* C29: read back under the export's quoting rule, the exported file has one
\* line for the header and one for every sorted row, and every line, the
\* header included, has exactly one field for each shown column, whatever
\* the labels of the columns hold.
C29_EveryLineHasAllFields ==
    out.kind = "csv" =>
        /\ Len(CsvRecords(out.text)) = 1 + Len(sortedData)
        /\ \A r \in DOMAIN CsvRecords(out.text) :
               Len(CsvRecords(out.text)[r]) = Len(visibleColumnsOf(columns))

\* C30: in the purchase form, whatever the order of field edits, submits and
\* request completions, the success message and the server error are never both
\* set; isSubmitting is true only while a posted request has not completed, and
\* it is false after a request completed and after a submit that validation
\* rejected
C30_MessagesExclusiveAndSubmittingInFlight ==
    probe.kind = "form" =>
        /\ ~(probe.successMessage.set /\ probe.serverError.set)
        /\ (probe.isSubmitting => probe.pending > 0)
        /\ (out.kind = "completed" => ~probe.isSubmitting)
        /\ ((out.kind = "submit" /\ ~out.posted) => ~probe.isSubmitting)

\* a request failed after the store field was blanked while it was in flight
C30_FailedAfterEditInFlight ==
    /\ probe.kind = "form"
    /\ out.kind = "completed"
    /\ out.outcome.kind = "error"
    /\ probe.serverError.set
    /\ ~probe.successMessage.set
    /\ trim(probe.values["store"]) = <<>>
    /\ probe.errors = {}

====
